---- MODULE Spec2Model ----
(***************************************************************************)
(* Model of linkedin_analyse.py: the loader (detect_and_load_data), the    *)
(* normalizer (preprocess_interactions) and the analysis pages that read   *)
(* the loaded state.  A pandas DataFrame is a sequence of rows, a Series   *)
(* a sequence of (key, value) rows in index order, a Timestamp the number  *)
(* of hours since 1970-01-01 00:00, and NaT / NaN are the values below.    *)
(***************************************************************************)
EXTENDS Integers, Sequences, FiniteSets, TLC

VARIABLES
    disk,             \* the data directory as the last detect_and_load_data read it
    day_name_locale,  \* whether day_name() accepts locale="fr_FR"
    state,            \* the state dictionary of launch_interface
    out,              \* what is displayed: a page, a notice or a traceback
    queue,            \* the analyses the current run_analysis has yet to reach
    run               \* the call of on_launch_analysis under way, if any

vars == <<disk, day_name_locale, state, out, queue, run>>

\* ------------------------------------------------------------------ bounds
\* Rows over the two interaction files together (main specification).
MaxRows == 3

\* ------------------------------------------------------------ null values
NaT == -1
NaN == -1

\* ------------------------------------------------- calendar (pandas .dt)
IsLeap(y) == (y % 4 = 0 /\ y % 100 # 0) \/ y % 400 = 0

DaysInMonth(y, m) ==
    IF m = 2 THEN (IF IsLeap(y) THEN 29 ELSE 28)
    ELSE IF m \in {4, 6, 9, 11} THEN 30 ELSE 31

\* Days since 1970-01-01 of a civil date (proleptic Gregorian calendar).
DaysFromCivil(y, m, d) ==
    LET yy  == IF m <= 2 THEN y - 1 ELSE y
        era == yy \div 400
        yoe == yy - era * 400
        mp  == (m + 9) % 12
        doy == (153 * mp + 2) \div 5 + d - 1
        doe == yoe * 365 + yoe \div 4 - yoe \div 100 + doy
    IN  era * 146097 + doe - 719468

\* The civil date of a day number: the inverse of DaysFromCivil.
CivilFromDays(z) ==
    LET z2  == z + 719468
        era == z2 \div 146097
        doe == z2 - era * 146097
        yoe == (doe - doe \div 1460 + doe \div 36524 - doe \div 146096) \div 365
        doy == doe - (365 * yoe + yoe \div 4 - yoe \div 100)
        mp  == (5 * doy + 2) \div 153
        d   == doy - (153 * mp + 2) \div 5 + 1
        m   == IF mp < 10 THEN mp + 3 ELSE mp - 9
        y   == yoe + era * 400
    IN  [y |-> IF m <= 2 THEN y + 1 ELSE y, m |-> m, d |-> d]

\* A raw Date cell is the text of a timestamp, kept as its fields
\* [y, mo, d, h]; a missing cell is all zeros.  pd.to_datetime(...,
\* errors="coerce") gives the Timestamp of a cell that names a real instant
\* and NaT for any other cell.
to_datetime(raw) ==
    IF /\ raw.y >= 1970
       /\ raw.mo \in 1..12
       /\ raw.d >= 1 /\ raw.d <= DaysInMonth(raw.y, raw.mo)
       /\ raw.h \in 0..23
    THEN DaysFromCivil(raw.y, raw.mo, raw.d) * 24 + raw.h
    ELSE NaT

dt_day(ts)   == ts \div 24
dt_hour(ts)  == ts % 24
dt_month(ts) == CivilFromDays(dt_day(ts)).m
dt_year(ts)  == CivilFromDays(dt_day(ts)).y

\* Series.dt.to_period("M"): months since 1970-01.
to_period_M(ts) == (dt_year(ts) - 1970) * 12 + (dt_month(ts) - 1)

\* Series.dt.to_period("W"): weeks Monday..Sunday (1970-01-01 is a Thursday).
to_period_W(ts) == (dt_day(ts) + 3) \div 7

\* PeriodIndex.to_timestamp() / Period.start_time.
month_to_timestamp(p) == DaysFromCivil(1970 + (p \div 12), (p % 12) + 1, 1) * 24
week_start_time(w)    == (w * 7 - 3) * 24

DayNamesFr == <<"lundi", "mardi", "mercredi", "jeudi", "vendredi", "samedi", "dimanche">>
DayNamesEn == <<"monday", "tuesday", "wednesday", "thursday", "friday", "saturday", "sunday">>

\* Series.dt.day_name(...).str.lower(): with the locale argument the French
\* names, in the TypeError fallback the English ones.
day_name(ts, withLocale) ==
    LET wd == (dt_day(ts) + 3) % 7
    IN  IF withLocale THEN DayNamesFr[wd + 1] ELSE DayNamesEn[wd + 1]

\* ------------------------------------------------------- sequence helpers
Range(s) == {s[i] : i \in DOMAIN s}

Min(S) == CHOOSE x \in S : \A y \in S : x <= y
Max(S) == CHOOSE x \in S : \A y \in S : x >= y

RECURSIVE SortedSeq(_)
\* The members of a set of integers in ascending order.
SortedSeq(S) ==
    IF S = {} THEN <<>> ELSE <<Min(S)>> \o SortedSeq(S \ {Min(S)})

RECURSIVE SumSeq(_)
SumSeq(s) == IF s = <<>> THEN 0 ELSE Head(s) + SumSeq(Tail(s))

\* --------------------------------------------------------------- frames
DF(rows) == [none |-> FALSE, rows |-> rows]
NoneDF   == [none |-> TRUE, rows |-> <<>>]
df_empty(df) == Len(df.rows) = 0

\* A column label: its name and whether the header cell carries blanks
\* around it; df.columns.str.strip() removes them.
Col(name) == [name |-> name, padded |-> FALSE]
columns_str_strip(cols) == {Col(c.name) : c \in cols}

\* A frame with named columns (Positions, Connections, Saved Jobs); a row
\* holds a value for every column the file can have, read only when the
\* column is there.
TF(cols, rows) == [none |-> FALSE, cols |-> cols, rows |-> rows]
NoneTF == [none |-> TRUE, cols |-> {}, rows |-> <<>>]

\* safe_load_csv: None for a missing file and for a file pd.read_csv
\* rejects (an empty file), else the frame with one row per record.
safe_load_csv(file) ==
    IF file.kind \in {"absent", "empty"} THEN [none |-> TRUE, hasDate |-> FALSE, rows |-> <<>>]
    ELSE [none |-> FALSE, hasDate |-> file.kind = "dated",
          rows |-> [i \in 1..Len(file.rows) |-> [idx |-> i - 1, raw |-> file.rows[i]]]]

\* safe_load_csv of a file with named columns.
safe_load_csv_table(file) ==
    IF file.kind \in {"absent", "empty"} THEN NoneTF
    ELSE TF(columns_str_strip(file.cols), file.rows)

\* safe_prepare_dates: an empty frame with a Date column, or the frame with
\* its Date column converted.
safe_prepare_dates(df) ==
    IF df.none \/ Len(df.rows) = 0 \/ ~df.hasDate THEN DF(<<>>)
    ELSE DF([i \in 1..Len(df.rows) |->
                [idx |-> df.rows[i].idx, Date |-> to_datetime(df.rows[i].raw)]])

\* A plausible slip: the rows without a Date are kept.
dropna_Date_keeps_all(rows) == rows

\* df.dropna(subset=["Date"])
dropna_Date(rows) == SelectSeq(rows, LAMBDA r : r.Date # NaT)

preprocess_interactions(df, source_name, withLocale) ==
    LET kept == dropna_Date(df.rows)
    IN  DF([i \in 1..Len(kept) |->
              [idx        |-> kept[i].idx,
               Date       |-> kept[i].Date,
               year_month |-> to_period_M(kept[i].Date),
               hour       |-> dt_hour(kept[i].Date),
               weekday    |-> day_name(kept[i].Date, withLocale),
               month      |-> dt_month(kept[i].Date),
               type       |-> source_name]])

\* pd.concat([reactions, comments], ignore_index=True)
concat(a, b) ==
    LET rows == a.rows \o b.rows
    IN  DF([i \in 1..Len(rows) |-> [rows[i] EXCEPT !.idx = i - 1]])

NoneCounts == [none |-> TRUE, cols |-> {}, rows |-> <<>>]

\* A plausible slip: grouping by month alone, every column holding the
\* month's total.
group_year_month_only(df_all) ==
    LET rows == df_all.rows
        keys == SortedSeq({rows[i].year_month : i \in 1..Len(rows)})
        cols == {rows[i].type : i \in 1..Len(rows)}
    IN  [none |-> FALSE, cols |-> cols,
         rows |-> [k \in 1..Len(keys) |->
                     [key    |-> month_to_timestamp(keys[k]),
                      counts |-> [c \in cols |->
                                   Cardinality({i \in 1..Len(rows) :
                                       rows[i].year_month = keys[k]})]]]]

\* df_all.groupby(["year_month", "type"]).size().unstack(fill_value=0),
\* then index.to_timestamp(): one row per month that occurs, in ascending
\* order, one column per type that occurs.
group_year_month_type(df_all) ==
    LET rows == df_all.rows
        keys == SortedSeq({rows[i].year_month : i \in 1..Len(rows)})
        cols == {rows[i].type : i \in 1..Len(rows)}
    IN  [none |-> FALSE, cols |-> cols,
         rows |-> [k \in 1..Len(keys) |->
                     [key    |-> month_to_timestamp(keys[k]),
                      counts |-> [c \in cols |->
                                   Cardinality({i \in 1..Len(rows) :
                                       rows[i].year_month = keys[k] /\ rows[i].type = c})]]]]

RECURSIVE sort_values_by(_, _)
\* df.sort_values(col): rows by ascending value of a Timestamp column,
\* rows of equal value in their former order.
sort_values_by(rows, col) ==
    IF rows = <<>> THEN <<>>
    ELSE LET m == Min({rows[i][col] : i \in 1..Len(rows)})
             p == Min({i \in 1..Len(rows) : rows[i][col] = m})
         IN  <<rows[p]>> \o sort_values_by(SubSeq(rows, 1, p - 1) \o SubSeq(rows, p + 1, Len(rows)), col)

\* df[col] = pd.to_datetime(df[col], errors="coerce") on a column as read
\* from the file.  (On a column of Timestamps the call changes nothing.)
to_datetime_column(rows, col) ==
    [i \in 1..Len(rows) |-> [rows[i] EXCEPT ![col] = to_datetime(rows[i][col])]]

\* df.dropna(subset=[col]) on a Timestamp column
dropna_column(rows, col) == SelectSeq(rows, LAMBDA r : r[col] # NaT)

\* The connections of the state (lines 134-144): dated, cleaned and sorted
\* when the column is there, else left as read.
load_connections(connections) ==
    IF connections.none THEN connections
    ELSE IF Col("Connected On") \in connections.cols
    THEN TF(connections.cols,
            sort_values_by(dropna_column(to_datetime_column(connections.rows, "ConnectedOn"),
                                         "ConnectedOn"), "ConnectedOn"))
    ELSE connections

\* The positions of the state (lines 166-168): "Started On" converted.
load_positions(positions) ==
    IF ~positions.none /\ Col("Started On") \in positions.cols
    THEN TF(positions.cols, to_datetime_column(positions.rows, "StartedOn"))
    ELSE positions

\* The events of the state (lines 165-172): the start of each position
\* with a start date, labelled by its title ("Poste" without the column).
load_events(positions) ==
    IF ~positions.none /\ Col("Started On") \in positions.cols
    THEN LET rows == dropna_column(to_datetime_column(positions.rows, "StartedOn"), "StartedOn")
         IN  [i \in 1..Len(rows) |->
                 [date  |-> rows[i].StartedOn,
                  title |-> IF Col("Title") \in positions.cols THEN rows[i].Title ELSE "Poste"]]
    ELSE <<>>

detect_and_load_data(d, withLocale) ==
    LET reactions0 == safe_prepare_dates(safe_load_csv(d.Reactions))
        comments0  == safe_prepare_dates(safe_load_csv(d.Comments))
        reactions  == IF ~df_empty(reactions0)
                      THEN preprocess_interactions(reactions0, "Reactions", withLocale)
                      ELSE reactions0
        comments   == IF ~df_empty(comments0)
                      THEN preprocess_interactions(comments0, "Comments", withLocale)
                      ELSE comments0
        df_all     == IF ~df_empty(reactions) /\ ~df_empty(comments) THEN concat(reactions, comments)
                      ELSE IF ~df_empty(reactions) THEN reactions
                      ELSE IF ~df_empty(comments) THEN comments
                      ELSE NoneDF
        activity_counts == IF ~df_all.none /\ ~df_empty(df_all)
                           THEN group_year_month_type(df_all)
                           ELSE NoneCounts
        positions0   == safe_load_csv_table(d.Positions)
        connections0 == safe_load_csv_table(d.Connections)
        saved_jobs   == safe_load_csv_table(d.SavedJobs)
        connections  == load_connections(connections0)
        positions    == load_positions(positions0)
    IN  [reactions |-> reactions, comments |-> comments,
         positions |-> positions, connections |-> connections,
         saved_jobs |-> saved_jobs,
         df_all |-> df_all, activity_counts |-> activity_counts,
         events |-> load_events(positions0),
         files_info |-> [n \in {"Reactions", "Comments", "Positions", "Connections"} |->
                            d[n].kind # "absent"]]

\* ------------------------------------------------------------- Series
\* A Series is a sequence of rows [key, value] in index order.
series_keys(s) == {s[i].key : i \in 1..Len(s)}

\* Series.get(key, default)
series_get(s, k, default) ==
    IF k \in series_keys(s)
    THEN s[CHOOSE i \in 1..Len(s) : s[i].key = k].value
    ELSE default

\* The grouping key of a Date: .dt.date ("D"), .dt.to_period("W") or
\* .dt.to_period("M").
groupby_key(ts, freq) ==
    CASE freq = "D" -> dt_day(ts)
      [] freq = "W" -> to_period_W(ts)
      [] freq = "M" -> to_period_M(ts)

\* frame.groupby(<key of the row's Date>).size(): one row per key that
\* occurs, keys ascending.
groupby_size(rows, freq) ==
    LET keys == SortedSeq({groupby_key(rows[i].Date, freq) : i \in 1..Len(rows)})
    IN  [k \in 1..Len(keys) |->
            [key   |-> keys[k],
             value |-> Cardinality({i \in 1..Len(rows) :
                                      groupby_key(rows[i].Date, freq) = keys[k]})]]

\* a.add(b, fill_value=0): the union of the two indexes in ascending
\* order, a key missing on one side counting 0 there.
series_add(a, b) ==
    LET keys == SortedSeq(series_keys(a) \cup series_keys(b))
    IN  [k \in 1..Len(keys) |->
            [key   |-> keys[k],
             value |-> series_get(a, keys[k], 0) + series_get(b, keys[k], 0)]]

series_max(s) == Max({s[i].value : i \in 1..Len(s)})
series_min(s) == Min({s[i].value : i \in 1..Len(s)})

\* A plausible slip of idxmax: the last row holding the maximum.
idxmax_last(s) ==
    s[Max({i \in 1..Len(s) : s[i].value = series_max(s)})].key

\* Series.idxmax(): the key of the first row holding the maximum.
idxmax(s) ==
    s[Min({i \in 1..Len(s) : s[i].value = series_max(s)})].key

\* Series.idxmin(): the key of the first row holding the minimum.
idxmin(s) ==
    s[Min({i \in 1..Len(s) : s[i].value = series_min(s)})].key

\* activity_counts.sum(axis=1)
sum_axis1(ac) ==
    [k \in 1..Len(ac.rows) |->
        [key   |-> ac.rows[k].key,
         value |-> (IF "Reactions" \in ac.cols THEN ac.rows[k].counts["Reactions"] ELSE 0)
                   + (IF "Comments" \in ac.cols THEN ac.rows[k].counts["Comments"] ELSE 0)]]

\* PeriodIndex -> Timestamp index of a monthly Series.
index_to_timestamp(s) ==
    [k \in 1..Len(s) |-> [key |-> month_to_timestamp(s[k].key), value |-> s[k].value]]

\* ------------------------------------------------- narrative thresholds
PeakHigh      == 40
PeakMedium    == 15
MonthlyLow    == 10
MonthlyMedium == 30
RegularityVeryRegular == 5
RegularityRegular     == 15
RegularityIrregular   == 30

PoolHigh   == {"high-1", "high-2", "high-3"}
PoolMedium == {"medium-1", "medium-2", "medium-3"}
PoolLow    == {"low-1", "low-2", "low-3"}

NoOut == [page |-> "none", status |-> "none"]

\* --------------------------------------------------- monthly evolution
plot_monthly_activity(activity_counts) ==
    IF activity_counts.none \/ Len(activity_counts.rows) = 0
    THEN [page |-> "monthly", status |-> "warning"]
    ELSE LET monthly_totals == sum_axis1(activity_counts)
             best_value     == series_max(monthly_totals)
         IN  [page        |-> "monthly",
              status      |-> "shown",
              best_month  |-> idxmax(monthly_totals),
              best_value  |-> best_value,
              worst_month |-> idxmin(monthly_totals),
              worst_value |-> series_min(monthly_totals),
              comment     |-> IF best_value = 0 THEN "none"
                              ELSE IF best_value < MonthlyLow THEN "low"
                              ELSE IF best_value < MonthlyMedium THEN "medium"
                              ELSE "high"]

\* ------------------------------------------------------ activity peaks
\* A plausible slip of the ladder: strict comparisons at the borders.
peak_pool_strict(peak_value) ==
    IF peak_value > PeakHigh THEN "high"
    ELSE IF peak_value > PeakMedium THEN "medium"
    ELSE "low"

\* The branch of the peak-magnitude ladder (lines 420, 427, 434).
peak_pool(peak_value) ==
    IF peak_value >= PeakHigh THEN "high"
    ELSE IF peak_value >= PeakMedium THEN "medium"
    ELSE "low"

\* A plausible slip: one list of templates for all the branches.
pool_messages_shared(pool) == PoolHigh \cup PoolMedium \cup PoolLow

\* The list of templates of a branch, from which random.choice draws.
pool_messages(pool) ==
    IF pool = "high" THEN PoolHigh
    ELSE IF pool = "medium" THEN PoolMedium
    ELSE PoolLow

\* The comments show_activity_peaks_comment can show: one per outcome of
\* random.choice.
show_activity_peaks_comment(monthly_total) ==
    IF Len(monthly_total) = 0
    THEN {[status |-> "info", peak_month |-> NaT, peak_value |-> 0,
           pool |-> "none", message |-> "none"]}
    ELSE LET monthly_totals == index_to_timestamp(monthly_total)
             peak_value     == series_max(monthly_totals)
         IN  {[status     |-> "shown",
               peak_month |-> idxmax(monthly_totals),
               peak_value |-> peak_value,
               pool       |-> peak_pool(peak_value),
               message    |-> m] : m \in pool_messages(peak_pool(peak_value))}

\* The table of show_activity_peaks_page (lines 340-393) with each comment
\* show_activity_peaks_comment can add to it.
activity_peaks_table(reactions, comments) ==
    LET daily_likes      == groupby_size(reactions.rows, "D")
        daily_comments   == groupby_size(comments.rows, "D")
        daily_total      == series_add(daily_likes, daily_comments)
        weekly_likes     == groupby_size(reactions.rows, "W")
        weekly_comments  == groupby_size(comments.rows, "W")
        weekly_total     == series_add(weekly_likes, weekly_comments)
        monthly_likes    == groupby_size(reactions.rows, "M")
        monthly_comments == groupby_size(comments.rows, "M")
        monthly_total    == series_add(monthly_likes, monthly_comments)
        top_day          == idxmax(daily_total)
        top_week         == idxmax(weekly_total)
        top_month        == idxmax(monthly_total)
    IN  {[page    |-> "peaks",
          status  |-> "shown",
          day     |-> [key      |-> top_day,
                       likes    |-> series_get(daily_likes, top_day, 0),
                       comments |-> series_get(daily_comments, top_day, 0),
                       total    |-> series_get(daily_total, top_day, 0)],
          week    |-> [key      |-> top_week,
                       date     |-> week_start_time(top_week),
                       likes    |-> series_get(weekly_likes, top_week, 0),
                       comments |-> series_get(weekly_comments, top_week, 0),
                       total    |-> series_get(weekly_total, top_week, 0)],
          month   |-> [key      |-> top_month,
                       date     |-> month_to_timestamp(top_month),
                       likes    |-> series_get(monthly_likes, top_month, 0),
                       comments |-> series_get(monthly_comments, top_month, 0),
                       total    |-> series_get(monthly_total, top_month, 0)],
          comment |-> c] : c \in show_activity_peaks_comment(monthly_total)}

\* A plausible slip: no check of an empty daily_total, so that idxmax()
\* raises ValueError on it.
show_activity_peaks_page_unchecked(reactions, comments) ==
    IF reactions.none /\ comments.none
    THEN {[page |-> "peaks", status |-> "warning"]}
    ELSE IF Len(series_add(groupby_size(reactions.rows, "D"),
                           groupby_size(comments.rows, "D"))) = 0
    THEN {[page |-> "peaks", status |-> "fault", fault |-> "ValueError"]}
    ELSE activity_peaks_table(reactions, comments)

\* The pages show_activity_peaks_page can show.
show_activity_peaks_page(reactions, comments) ==
    IF reactions.none /\ comments.none
    THEN {[page |-> "peaks", status |-> "warning"]}
    ELSE IF Len(series_add(groupby_size(reactions.rows, "D"),
                           groupby_size(comments.rows, "D"))) = 0
    THEN {[page |-> "peaks", status |-> "info"]}
    ELSE activity_peaks_table(reactions, comments)

\* -------------------------------------------------- interaction intervals
RECURSIVE Gcd(_, _)
Gcd(a, b) == IF b = 0 THEN a ELSE Gcd(b, a % b)

\* A Timedelta in hours as a reduced fraction (a mean or a median need not
\* be a whole number of hours); NaTd is the Timedelta NaT.
Timedelta(num, den) ==
    LET g == Gcd(num, den) IN [num |-> num \div g, den |-> den \div g]
NaTd == [num |-> 0, den |-> 0]

\* A plausible slip: the rows left in input order.
sort_values_Date_input_order(rows) == rows

RECURSIVE sort_values_Date(_)
\* df.sort_values("Date"): rows by ascending Date (rows of equal Date carry
\* the same Date, the only column read afterwards).
sort_values_Date(rows) ==
    IF rows = <<>> THEN <<>>
    ELSE LET m == Min({rows[i].Date : i \in 1..Len(rows)})
             p == Min({i \in 1..Len(rows) : rows[i].Date = m})
         IN  <<rows[p]>> \o sort_values_Date(SubSeq(rows, 1, p - 1) \o SubSeq(rows, p + 1, Len(rows)))

RECURSIVE sort_values(_)
\* A sequence of integers in ascending order, duplicates kept.
sort_values(s) ==
    IF s = <<>> THEN <<>>
    ELSE LET p == Min({i \in 1..Len(s) : s[i] = Min(Range(s))})
         IN  <<s[p]>> \o sort_values(SubSeq(s, 1, p - 1) \o SubSeq(s, p + 1, Len(s)))

\* df_sorted with its "interval" column (Date.diff()), the first row, whose
\* interval is NaT, dropped.
with_intervals(rows) ==
    LET df_sorted == sort_values_Date(rows)
    IN  [i \in 1..(IF Len(df_sorted) = 0 THEN 0 ELSE Len(df_sorted) - 1) |->
            [idx      |-> df_sorted[i + 1].idx,
             Date     |-> df_sorted[i + 1].Date,
             interval |-> df_sorted[i + 1].Date - df_sorted[i].Date]]

analyze_interaction_intervals(df_all) ==
    LET rows      == with_intervals(df_all.rows)
        intervals == [i \in 1..Len(rows) |-> rows[i].interval]
        n         == Len(intervals)
        sorted    == sort_values(intervals)
        nth(k)    == sorted[k]
    IN  [intervals |-> intervals,
         mean      |-> IF n = 0 THEN NaTd ELSE Timedelta(SumSeq(intervals), n),
         median    |-> IF n = 0 THEN NaTd
                       ELSE IF n % 2 = 1 THEN Timedelta(nth((n + 1) \div 2), 1)
                       ELSE Timedelta(nth(n \div 2) + nth(n \div 2 + 1), 2),
         max       |-> IF n = 0 THEN NaTd ELSE Timedelta(Max(Range(intervals)), 1),
         min       |-> IF n = 0 THEN NaTd ELSE Timedelta(Min(Range(intervals)), 1)]

show_intervals_page(df_all) ==
    IF df_all.none \/ df_empty(df_all)
    THEN [page |-> "intervals", status |-> "warning"]
    ELSE [page |-> "intervals", status |-> "shown",
          stats |-> analyze_interaction_intervals(df_all)]

\* ------------------------------------------------------ cumulative activity
Abs(n) == IF n < 0 THEN -n ELSE n

\* A float that is a quotient of integers, reduced; NaNf is the float NaN,
\* which no comparison holds of.
Fraction(num, den) ==
    LET g == Gcd(Abs(num), den) IN [num |-> num \div g, den |-> den \div g]
NaNf == [num |-> 0, den |-> 0]
float_lt(f, n) == f # NaNf /\ f.num < n * f.den

\* df.groupby(["Date", "type"])["count"].sum().unstack(fill_value=0)
\* .sort_index(): one row per timestamp that occurs, in ascending order, one
\* column per type that occurs, each cell the number of rows of that
\* timestamp and type.
group_Date_type(df_all) ==
    LET rows == df_all.rows
        keys == SortedSeq({rows[i].Date : i \in 1..Len(rows)})
        cols == {rows[i].type : i \in 1..Len(rows)}
    IN  [none |-> FALSE, cols |-> cols,
         rows |-> [k \in 1..Len(keys) |->
                     [key    |-> keys[k],
                      counts |-> [c \in cols |->
                                   Cardinality({i \in 1..Len(rows) :
                                       rows[i].Date = keys[k] /\ rows[i].type = c})]]]]

\* A plausible slip: the running sum left out.
cumsum_missing(frame) == frame

\* DataFrame.cumsum(): each cell the sum of its column down to its row.
cumsum(frame) ==
    [frame EXCEPT !.rows =
        [k \in 1..Len(frame.rows) |->
            [key    |-> frame.rows[k].key,
             counts |-> [c \in frame.cols |->
                          SumSeq([j \in 1..k |-> frame.rows[j].counts[c]])]]]]

\* The label of a month bin of resample("M"): the last day of the month.
month_end(p) == month_to_timestamp(p + 1) - 24

\* cumulative.resample("M").sum(): one row for every calendar month from
\* the month of the first timestamp to the month of the last, each cell the
\* sum of the cells of the month's rows, 0 for a month without row.
resample_M_sum(frame) ==
    LET first == to_period_M(frame.rows[1].key)
        last  == to_period_M(frame.rows[Len(frame.rows)].key)
    IN  [frame EXCEPT !.rows =
            [k \in 1..(last - first + 1) |->
                [key    |-> month_end(first + k - 1),
                 counts |-> [c \in frame.cols |->
                              SumSeq([j \in 1..Len(frame.rows) |->
                                        IF to_period_M(frame.rows[j].key) = first + k - 1
                                        THEN frame.rows[j].counts[c] ELSE 0])]]]]

\* monthly_totals.diff().abs().dropna()
diff_abs(s) == [k \in 1..(IF Len(s) = 0 THEN 0 ELSE Len(s) - 1) |-> Abs(s[k + 1].value - s[k].value)]

\* Series.mean(): NaN of an empty Series.
mean(values) ==
    IF Len(values) = 0 THEN NaNf ELSE Fraction(SumSeq(values), Len(values))

\* A plausible slip of the ladder: the boundary values in the lower tier.
regularity_tier_inclusive(mean_variation) ==
    IF mean_variation # NaNf /\ mean_variation.num <= RegularityVeryRegular * mean_variation.den
    THEN "very regular"
    ELSE IF mean_variation # NaNf /\ mean_variation.num <= RegularityRegular * mean_variation.den
    THEN "regular"
    ELSE IF mean_variation # NaNf /\ mean_variation.num <= RegularityIrregular * mean_variation.den
    THEN "irregular"
    ELSE "very irregular"

\* The ladder of show_cumulative_comment (lines 309-316).
regularity_tier(mean_variation) ==
    IF float_lt(mean_variation, RegularityVeryRegular) THEN "very regular"
    ELSE IF float_lt(mean_variation, RegularityRegular) THEN "regular"
    ELSE IF float_lt(mean_variation, RegularityIrregular) THEN "irregular"
    ELSE "very irregular"

show_cumulative_comment(activity_counts) ==
    LET monthly_totals == sum_axis1(activity_counts)
        diffs          == diff_abs(monthly_totals)
        mean_variation == mean(diffs)
    IN  [monthly_totals |-> monthly_totals,
         mean_variation |-> mean_variation,
         best_month     |-> idxmax(monthly_totals),
         best_value     |-> series_max(monthly_totals),
         worst_month    |-> idxmin(monthly_totals),
         worst_value    |-> series_min(monthly_totals),
         tier           |-> regularity_tier(mean_variation)]

plot_cumulative_activity(df_all) ==
    IF df_all.none \/ df_empty(df_all)
    THEN [page |-> "cumulative", status |-> "warning"]
    ELSE LET cumulative == cumsum(group_Date_type(df_all))
         IN  [page       |-> "cumulative",
              status     |-> "shown",
              cumulative |-> cumulative,
              comment    |-> show_cumulative_comment(resample_M_sum(cumulative))]

\* ------------------------------------------------------- extreme periods
\* df_sorted.loc[label]["Date"]
loc_Date(rows, label) == rows[CHOOSE i \in 1..Len(rows) : rows[i].idx = label].Date

\* A plausible slip: the label of the last row holding the maximum.
interval_idxmax_last(rows) ==
    rows[Max({i \in 1..Len(rows) :
                 \A j \in 1..Len(rows) : rows[j].interval <= rows[i].interval})].idx

\* Series.idxmax() / idxmin() of the interval column: the label of the first
\* row holding the extreme.
interval_idxmax(rows) ==
    rows[Min({i \in 1..Len(rows) :
                 \A j \in 1..Len(rows) : rows[j].interval <= rows[i].interval})].idx
interval_idxmin(rows) ==
    rows[Min({i \in 1..Len(rows) :
                 \A j \in 1..Len(rows) : rows[j].interval >= rows[i].interval})].idx

\* find_extreme_periods: idxmax() of an empty interval column raises
\* ValueError, which nothing catches.
find_extreme_periods(df_all) ==
    LET df_sorted == with_intervals(df_all.rows)
    IN  IF Len(df_sorted) = 0
        THEN [fault |-> "ValueError"]
        ELSE LET max_interval == Max({df_sorted[i].interval : i \in 1..Len(df_sorted)})
                 max_end      == loc_Date(df_sorted, interval_idxmax(df_sorted))
                 min_interval == Min({df_sorted[i].interval : i \in 1..Len(df_sorted)})
                 min_end      == loc_Date(df_sorted, interval_idxmin(df_sorted))
             IN  [fault        |-> "none",
                  max_interval |-> Timedelta(max_interval, 1),
                  max_start    |-> max_end - max_interval,
                  max_end      |-> max_end,
                  min_interval |-> Timedelta(min_interval, 1),
                  min_start    |-> min_end - min_interval,
                  min_end      |-> min_end]

\* The branch of the ladder of show_extreme_periods_comment (lines 590,
\* 597, 604).
extreme_tier(peak_value) ==
    IF peak_value >= PeakHigh THEN "high"
    ELSE IF peak_value >= PeakMedium THEN "medium"
    ELSE "low"

show_extreme_periods_comment(monthly_total) ==
    IF Len(monthly_total) = 0
    THEN [status |-> "info", peak_month |-> NaT, low_month |-> NaT, peak_value |-> 0, tier |-> "none"]
    ELSE LET mt == index_to_timestamp(monthly_total)
         IN  [status     |-> "shown",
              peak_month |-> idxmax(mt),
              low_month  |-> idxmin(mt),
              peak_value |-> series_max(mt),
              tier       |-> extreme_tier(series_max(mt))]

show_extreme_periods_page(df_all) ==
    IF df_all.none \/ df_empty(df_all)
    THEN [page |-> "extremes", status |-> "warning"]
    ELSE LET periods == find_extreme_periods(df_all)
         IN  IF periods.fault # "none"
             THEN [page |-> "extremes", status |-> "fault", fault |-> periods.fault]
             ELSE [page |-> "extremes", status |-> "shown", periods |-> periods,
                   comment |-> show_extreme_periods_comment(
                                   groupby_size(df_all.rows, "M"))]

\* ---------------------------------------------------------- time of day
\* A plausible slip: the upper bound of each band included.
period_of_day_inclusive(hour) ==
    IF 5 <= hour /\ hour <= 12 THEN "Matin"
    ELSE IF 12 <= hour /\ hour <= 17 THEN "Apres-midi"
    ELSE IF 17 <= hour /\ hour <= 22 THEN "Soir"
    ELSE "Nuit"

period_of_day(hour) ==
    IF 5 <= hour /\ hour < 12 THEN "Matin"
    ELSE IF 12 <= hour /\ hour < 17 THEN "Apres-midi"
    ELSE IF 17 <= hour /\ hour < 22 THEN "Soir"
    ELSE "Nuit"

\* df["hour"].apply(period_of_day).value_counts(): the count of each moment
\* that occurs.
analyze_time_of_day(df_all) ==
    LET rows    == df_all.rows
        moments == {period_of_day(rows[i].hour) : i \in 1..Len(rows)}
    IN  [m \in moments |->
            Cardinality({i \in 1..Len(rows) : period_of_day(rows[i].hour) = m})]

show_time_of_day_page(df_all) ==
    IF df_all.none \/ df_empty(df_all)
    THEN [page |-> "timeofday", status |-> "warning"]
    ELSE [page |-> "timeofday", status |-> "shown", counts |-> analyze_time_of_day(df_all)]

\* ---------------------------------------------------------------- heatmap
order_moments == <<"Matin", "Apres-midi", "Soir", "Nuit">>
order_days    == <<"lundi", "mardi", "mercredi", "jeudi", "vendredi", "samedi", "dimanche">>

\* df.pivot_table(index="moment", columns="weekday", values="Date",
\* aggfunc="count", fill_value=0): the moments and weekdays that occur, a
\* combination without an event holding 0.
pivot_table(rows) ==
    LET index   == {period_of_day(rows[i].hour) : i \in 1..Len(rows)}
        columns == {rows[i].weekday : i \in 1..Len(rows)}
    IN  [index |-> index, columns |-> columns,
         cell  |-> [c \in index \X columns |->
                      Cardinality({i \in 1..Len(rows) :
                          period_of_day(rows[i].hour) = c[1] /\ rows[i].weekday = c[2]})]]

\* pivot.reindex(index=...) then pivot.reindex(columns=...): a label the
\* pivot does not have gets NaN cells.
reindex(pivot, index, columns) ==
    [index |-> index, columns |-> columns,
     cell  |-> [c \in index \X columns |->
                  IF c \in DOMAIN pivot.cell THEN pivot.cell[c] ELSE NaN]]

analyze_heatmap(df_all) ==
    LET pivot  == pivot_table(df_all.rows)
        pivot1 == reindex(pivot, Range(order_moments), pivot.columns)
    IN  reindex(pivot1, Range(order_moments), Range(order_days))

\* pivot.sum(axis=...) skips NaN; idxmax() is the first label, in the fixed
\* order, holding the maximum.
show_heatmap_comment(pivot) ==
    LET cellv(m, d)  == IF pivot.cell[<<m, d>>] = NaN THEN 0 ELSE pivot.cell[<<m, d>>]
        day_totals    == [k \in 1..7 |-> [key |-> k,
                            value |-> SumSeq([j \in 1..4 |-> cellv(order_moments[j], order_days[k])])]]
        moment_totals == [j \in 1..4 |-> [key |-> j,
                            value |-> SumSeq([k \in 1..7 |-> cellv(order_moments[j], order_days[k])])]]
    IN  [best_day |-> order_days[idxmax(day_totals)],
         best_moment |-> order_moments[idxmax(moment_totals)]]

\* sns.heatmap(pivot, annot=True, fmt="d") formats every cell as an integer:
\* a pivot that reindex turned to floats (any NaN) makes it raise ValueError.
show_heatmap_page(df_all) ==
    IF df_all.none \/ df_empty(df_all)
    THEN [page |-> "heatmap", status |-> "warning"]
    ELSE LET pivot == analyze_heatmap(df_all)
         IN  IF \E c \in DOMAIN pivot.cell : pivot.cell[c] = NaN
             THEN [page |-> "heatmap", status |-> "fault", fault |-> "ValueError", pivot |-> pivot]
             ELSE [page |-> "heatmap", status |-> "shown", pivot |-> pivot,
                   comment |-> show_heatmap_comment(pivot)]

\* ------------------------------------------------------------ seasonality
\* A plausible slip: the bins keyed by position among the months that occur
\* instead of by calendar month number.
reindex_months_by_position(monthly_counts) ==
    LET keys == SortedSeq(DOMAIN monthly_counts)
    IN  [m \in 1..12 |-> IF m <= Len(keys) THEN monthly_counts[keys[m]] ELSE 0]

\* monthly_counts.reindex(range(1, 13), fill_value=0), index then named
\* Janvier..Decembre: entry m is the bin of calendar month m.
reindex_months(monthly_counts) ==
    [m \in 1..12 |-> IF m \in DOMAIN monthly_counts THEN monthly_counts[m] ELSE 0]

\* df.groupby("month").size(), then the reindex.
analyze_seasonality(df_all) ==
    LET rows           == df_all.rows
        months         == {rows[i].month : i \in 1..Len(rows)}
        monthly_counts == [m \in months |-> Cardinality({i \in 1..Len(rows) : rows[i].month = m})]
    IN  reindex_months(monthly_counts)

show_seasonality_page(df_all) ==
    IF df_all.none \/ df_empty(df_all)
    THEN [page |-> "seasonality", status |-> "warning"]
    ELSE [page |-> "seasonality", status |-> "shown", monthly_counts |-> analyze_seasonality(df_all)]

\* ------------------------------------------------------------- saved jobs
\* df.groupby("year_month").size() with index.to_timestamp(): one row per
\* month in which a value of the Timestamp column falls, in ascending order.
monthly_counts_of(rows, col) ==
    LET keys == SortedSeq({to_period_M(rows[i][col]) : i \in 1..Len(rows)})
    IN  [k \in 1..Len(keys) |->
            [key   |-> month_to_timestamp(keys[k]),
             value |-> Cardinality({i \in 1..Len(rows) : to_period_M(rows[i][col]) = keys[k]})]]

\* df[col].value_counts().idxmax(): a most frequent value of the column
\* (which one of several that tie depends on the sort value_counts uses).
value_counts_idxmax(rows, col) ==
    LET count(v) == Cardinality({i \in 1..Len(rows) : rows[i][col] = v})
    IN  {v \in {rows[i][col] : i \in 1..Len(rows)} :
            \A w \in {rows[i][col] : i \in 1..Len(rows)} : count(w) <= count(v)}

\* The dated rows in ascending order and their counts by month.
saved_jobs_prepared(cols, rows) ==
    [none |-> FALSE, error |-> "none",
     df |-> TF(cols, rows),
     monthly_counts |-> monthly_counts_of(rows, "SavedDate")]

\* prepare_saved_jobs: (None, None), with an error shown when the column
\* 'Saved Date' is not there, else the frame and the monthly counts.
prepare_saved_jobs(df_saved) ==
    IF df_saved.none \/ df_empty(df_saved)
    THEN [none |-> TRUE, error |-> "none"]
    ELSE IF Col("Saved Date") \notin df_saved.cols
    THEN [none |-> TRUE, error |-> "Saved Date"]
    ELSE saved_jobs_prepared(
             df_saved.cols,
             sort_values_by(dropna_column(to_datetime_column(df_saved.rows, "SavedDate"),
                                          "SavedDate"), "SavedDate"))

\* What show_saved_jobs_analysis displays of what prepare_saved_jobs
\* returned: df["Company Name"] and df["Job Title"] raise KeyError when the
\* column is not there.
saved_jobs_pages(prepared) ==
    IF prepared.none
    THEN [page |-> "jobsaved",
          status |-> IF prepared.error # "none" THEN "error" ELSE "warning",
          missing |-> prepared.error]
    ELSE IF df_empty(prepared.df)
    THEN [page |-> "jobsaved", status |-> "warning", missing |-> "none"]
    ELSE IF Col("Company Name") \notin prepared.df.cols
            \/ Col("Job Title") \notin prepared.df.cols
    THEN [page |-> "jobsaved", status |-> "fault", fault |-> "KeyError",
          monthly_counts |-> prepared.monthly_counts]
    ELSE [page |-> "jobsaved", status |-> "shown",
          monthly_counts    |-> prepared.monthly_counts,
          total             |-> Len(prepared.df.rows),
          most_active_month |-> idxmax(prepared.monthly_counts),
          most_active_value |-> series_max(prepared.monthly_counts),
          top_company       |-> value_counts_idxmax(prepared.df.rows, "Company"),
          top_title         |-> value_counts_idxmax(prepared.df.rows, "JobTitle")]

show_saved_jobs_analysis(df_saved) ==
    IF df_saved.none \/ df_empty(df_saved)
    THEN [page |-> "jobsaved", status |-> "warning"]
    ELSE saved_jobs_pages(prepare_saved_jobs(df_saved))

\* ---------------------------------------------------------- network growth
\* The rows and their counts by month.
connections_prepared(cols, rows) ==
    [none |-> FALSE, fault |-> "none",
     df |-> TF(cols, rows),
     monthly_counts |-> monthly_counts_of(rows, "ConnectedOn")]

\* prepare_connections on the connections of the state, whose 'Connected On'
\* is a column of Timestamps without NaT when it is there; without the
\* column df["Connected On"] raises KeyError.
prepare_connections(df_connections) ==
    IF df_connections.none \/ df_empty(df_connections)
    THEN [none |-> TRUE, fault |-> "none"]
    ELSE IF Col("Connected On") \notin df_connections.cols
    THEN [none |-> TRUE, fault |-> "KeyError"]
    ELSE connections_prepared(
             df_connections.cols,
             sort_values_by(dropna_column(df_connections.rows, "ConnectedOn"), "ConnectedOn"))

\* What show_network_growth_page displays of what prepare_connections
\* returned; idxmax() of empty monthly counts raises ValueError.
network_pages(prepared) ==
    IF prepared.fault # "none"
    THEN [page |-> "network", status |-> "fault", fault |-> prepared.fault]
    ELSE IF Len(prepared.monthly_counts) = 0
    THEN [page |-> "network", status |-> "fault", fault |-> "ValueError"]
    ELSE [page |-> "network", status |-> "shown",
          monthly_counts     |-> prepared.monthly_counts,
          total              |-> Len(prepared.df.rows),
          most_active_month  |-> idxmax(prepared.monthly_counts),
          most_active_value  |-> series_max(prepared.monthly_counts),
          least_active_month |-> idxmin(prepared.monthly_counts),
          least_active_value |-> series_min(prepared.monthly_counts),
          avg_growth         |-> mean([k \in 1..Len(prepared.monthly_counts) |->
                                         prepared.monthly_counts[k].value])]

show_network_growth_page(df_connections) ==
    IF df_connections.none \/ df_empty(df_connections)
    THEN [page |-> "network", status |-> "warning"]
    ELSE network_pages(prepare_connections(df_connections))

\* ---------------------------------------------------- professional journey
\* (Finished On - Started On).days: whole days, rounded down.
timedelta_days(start, finish) == (finish - start) \div 24

\* Duration in months: days / 30.44.
duration_months(days) == Fraction(days * 100, 3044)

\* The first required column that is not there, "none" when all are.
missing_position_column(cols) ==
    IF Col("Started On") \notin cols THEN "Started On"
    ELSE IF Col("Finished On") \notin cols THEN "Finished On"
    ELSE IF Col("Title") \notin cols THEN "Title"
    ELSE IF Col("Company Name") \notin cols THEN "Company Name"
    ELSE "none"

\* df["Finished On"].fillna(today)
fillna_FinishedOn(rows, today) ==
    [i \in 1..Len(rows) |->
        [rows[i] EXCEPT !.FinishedOn = IF rows[i].FinishedOn = NaT THEN today
                                       ELSE rows[i].FinishedOn]]

\* The rows with their whole days between start and end, of which Duration
\* is the multiple days / 30.44.
with_Duration(rows) ==
    [i \in 1..Len(rows) |->
        [StartedOn  |-> rows[i].StartedOn,
         FinishedOn |-> rows[i].FinishedOn,
         Title      |-> rows[i].Title,
         Company    |-> rows[i].Company,
         days       |-> timedelta_days(rows[i].StartedOn, rows[i].FinishedOn)]]

\* prepare_positions on the positions of the state ('Started On' is a column
\* of Timestamps already): None, with an error shown for a missing column,
\* else the rows that have a start, a missing end replaced by today, each
\* with its Duration, in ascending order of start.
prepare_positions(df_positions, today) ==
    IF df_positions.none \/ df_empty(df_positions)
    THEN [none |-> TRUE, error |-> "none"]
    ELSE IF missing_position_column(df_positions.cols) # "none"
    THEN [none |-> TRUE, error |-> missing_position_column(df_positions.cols)]
    ELSE [none |-> FALSE, error |-> "none",
          rows |-> sort_values_by(
                       with_Duration(
                           dropna_column(
                               fillna_FinishedOn(
                                   to_datetime_column(df_positions.rows, "FinishedOn"), today),
                               "StartedOn")),
                       "StartedOn")]

\* The bars of the timeline (lines 988-1000): none for a position of zero
\* or fewer days.
timeline_bars(rows) ==
    SelectSeq([i \in 1..Len(rows) |->
                  [y |-> i - 1, left |-> rows[i].StartedOn, width |-> rows[i].days]],
              LAMBDA bar : bar.width > 0)

\* The row of df.loc[df["Duration"].idxmax()] / idxmin(): the first row
\* holding the extreme.
loc_Duration_idxmax(rows) ==
    rows[Min({i \in 1..Len(rows) : \A j \in 1..Len(rows) : rows[j].days <= rows[i].days})]
loc_Duration_idxmin(rows) ==
    rows[Min({i \in 1..Len(rows) : \A j \in 1..Len(rows) : rows[j].days >= rows[i].days})]

\* The timeline and the indicators (lines 981-1044) of the prepared rows.
journey_indicators(rows) ==
    [page |-> "journey", status |-> "shown",
     rows         |-> rows,
     bars         |-> timeline_bars(rows),
     avg_duration |-> Fraction(SumSeq([i \in 1..Len(rows) |-> rows[i].days]) * 100,
                               3044 * Len(rows)),
     max_duration |-> duration_months(loc_Duration_idxmax(rows).days),
     min_duration |-> duration_months(loc_Duration_idxmin(rows).days),
     longest      |-> [Title   |-> loc_Duration_idxmax(rows).Title,
                       Company |-> loc_Duration_idxmax(rows).Company],
     shortest     |-> [Title   |-> loc_Duration_idxmin(rows).Title,
                       Company |-> loc_Duration_idxmin(rows).Company],
     count        |-> Len(rows)]

\* What show_professional_journey_page displays of what prepare_positions
\* returned: nothing when no position has a start date.
journey_pages(prepared) ==
    IF prepared.none
    THEN [page |-> "journey", status |-> "error", missing |-> prepared.error]
    ELSE IF Len(prepared.rows) = 0
    THEN NoOut
    ELSE journey_indicators(prepared.rows)

show_professional_journey_page(df_positions, today) ==
    IF df_positions.none \/ df_empty(df_positions)
    THEN [page |-> "journey", status |-> "warning"]
    ELSE journey_pages(prepare_positions(df_positions, today))

\* ------------------------------------------------------------------ sectors
\* A cell of text: its characters, or the missing value (NaN).
Text(chars) == [null |-> FALSE, chars |-> chars]
NullText == [null |-> TRUE, chars |-> <<>>]

\* Series.astype(str): the missing value becomes the text "nan".
astype_str(cell) == IF cell.null THEN Text(<<"n", "a", "n">>) ELSE cell

RECURSIVE lstrip(_)
lstrip(chars) ==
    IF chars # <<>> /\ Head(chars) = " " THEN lstrip(Tail(chars)) ELSE chars
RECURSIVE rstrip(_)
rstrip(chars) ==
    IF chars # <<>> /\ chars[Len(chars)] = " "
    THEN rstrip(SubSeq(chars, 1, Len(chars) - 1)) ELSE chars

\* Series.str.strip()
str_strip(cell) == Text(rstrip(lstrip(cell.chars)))

\* df["Sector"] = df["Sector"].astype(str).str.strip() (line 1064): the
\* frame given, which is the one of the state, with its column replaced.
clean_Sector(df) ==
    IF df.none \/ df_empty(df) \/ Col("Sector") \notin df.cols THEN df
    ELSE TF(df.cols, [i \in 1..Len(df.rows) |->
                         [df.rows[i] EXCEPT !.Sector = str_strip(astype_str(df.rows[i].Sector))]])

\* counts / counts.sum() * 100 of the cleaned column.
sector_percentages(rows) ==
    [s \in {rows[i].Sector : i \in 1..Len(rows)} |->
        Fraction(Cardinality({i \in 1..Len(rows) : rows[i].Sector = s}) * 100, Len(rows))]

\* compute_sector_percentages: None, or the share of each sector in percent.
compute_sector_percentages(df) ==
    IF df.none \/ df_empty(df) \/ Col("Sector") \notin df.cols
    THEN [none |-> TRUE]
    ELSE [none |-> FALSE, percentages |-> sector_percentages(clean_Sector(df).rows)]

\* The chart, the comment and the table of the percentages.  The dominant
\* sector is the first of the descending sort, one of those with the
\* largest share.
sector_pages(pct) ==
    [page |-> "sector", status |-> "shown",
     percentages |-> pct,
     top_sector  |-> {s \in DOMAIN pct :
                        \A w \in DOMAIN pct :
                           pct[w].num * pct[s].den <= pct[s].num * pct[w].den}]

\* plot_sector_bar_chart with show_sector_comment, then show_sector_table:
\* without percentages only the notice of show_sector_table is displayed.
show_sector_pages(df) ==
    IF compute_sector_percentages(df).none
    THEN [page |-> "sector", status |-> "info"]
    ELSE sector_pages(compute_sector_percentages(df).percentages)

\* ------------------------------------------------------- the export files
\* The Date cells of the main specification: a Monday, the Thursday of the
\* same week, which lies in the next month, an earlier Monday of the first
\* one's month, a date that does not exist and a missing cell.  A cell may
\* occur in several rows: equal timestamps are separate events.
Cell(y, mo, d, h) == [y |-> y, mo |-> mo, d |-> d, h |-> h]
MissingCell == Cell(0, 0, 0, 0)
RawDates ==
    {Cell(2024, 1, 29, 4), Cell(2024, 2, 1, 17), Cell(2024, 1, 8, 12),
     Cell(2023, 2, 29, 10), MissingCell}

\* A file is absent, empty (read_csv rejects it), without a Date column, or
\* has a Date column and the rows given.
File(kind, rows) == [kind |-> kind, rows |-> rows]
UndatedFiles == {File(k, <<>>) : k \in {"absent", "empty", "nodate"}}
DatedFiles(cells, n) == {File("dated", r) : r \in [1..n -> cells]}

\* A file with named columns: its header and its rows.
Table(cols, rows) == [kind |-> "table", cols |-> cols, rows |-> rows]
Absent == File("absent", <<>>)

\* A data directory with the two interaction files given and no other file.
Dir(reactions, comments) ==
    [Reactions |-> reactions, Comments |-> comments,
     Positions |-> Absent, Connections |-> Absent, SavedJobs |-> Absent]

\* The clock at the time of an analysis: after every date of the files, or
\* in their midst.
Todays == {to_datetime(Cell(2024, 6, 15, 10)), to_datetime(Cell(2021, 6, 15, 10))}

Disks ==
    UNION {{Dir(f, g) :
                f \in DatedFiles(RawDates, n), g \in DatedFiles(RawDates, k) \cup UndatedFiles}
              \cup
            {Dir(f, g) :
                f \in UndatedFiles, g \in DatedFiles(RawDates, n + k) \cup UndatedFiles}
           : <<n, k>> \in {p \in (0..MaxRows) \X (0..MaxRows) : p[1] + p[2] <= MaxRows}}

\* ------------------------------------------------------------- the machine
\* The analyses in the order run_analysis tests their check boxes.
AnalysisOrder ==
    <<"monthly", "cumulative", "peaks", "intervals", "extremes", "timeofday",
      "heatmap", "seasonality", "jobsaved", "journey", "sector", "network">>
Analyses == Range(AnalysisOrder)

\* A plausible slip: only the frames of the interactions replaced.
state_update_interactions(old, new) ==
    [k \in DOMAIN old |->
        IF k \in {"reactions", "comments", "df_all"} THEN new[k] ELSE old[k]]

\* state.update(new_state): every key of new_state replaced or added.
state_update(old, new) ==
    [k \in DOMAIN old \cup DOMAIN new |-> IF k \in DOMAIN new THEN new[k] ELSE old[k]]

\* The check boxes as run_analysis reads them: "Tout analyser" and the
\* boxes of the analyses.
Flags(all, boxes) == [all |-> all, boxes |-> boxes]
run_queue(f) == SelectSeq(AnalysisOrder, LAMBDA a : f.all \/ a \in f.boxes)

\* What the user does with the consent window: one of its two buttons, or
\* the window closed without a choice.
ConsentAnswers == {"accept", "refuse", "close"}

\* A plausible slip: user_choice starts at True, so that only "Je refuse"
\* refuses.
ask_user_consent_default_accepted(answer) == answer # "refuse"

\* ask_user_consent: user_choice["accepted"] starts at False, accept() sets
\* it to True, refuse() to False, and it is returned when the window is gone.
ask_user_consent(answer) == answer = "accept"

\* One call of on_launch_analysis while it lasts: what the user answered to
\* its consent window, the check boxes its run_analysis read, the analyses
\* its run_analysis has called so far.  No call is under way in NoRun.
Run(answer, flags, done) == [answer |-> answer, flags |-> flags, done |-> done]
NoRun == Run("none", Flags(FALSE, {}), <<>>)

\* main(): the state is what detect_and_load_data read from the data
\* directory; nothing is displayed and nothing runs yet.
InitOn(disks) ==
    /\ disk \in disks
    /\ day_name_locale \in BOOLEAN
    /\ state = detect_and_load_data(disk, day_name_locale)
    /\ out = NoOut
    /\ queue = <<>>
    /\ run = NoRun

Init == InitOn(Disks)

\* on_launch_analysis, the user having ticked one of the given choices of
\* boxes: the consent window is opened and answered; without consent a
\* notice and no analysis, else run_analysis starts with the boxes as they
\* are.
on_launch_analysis(choices) ==
    /\ out = NoOut /\ queue = <<>>
    /\ \E answer \in ConsentAnswers, f \in choices :
          IF ask_user_consent(answer)
          THEN /\ queue' = run_queue(f)
               /\ out' = NoOut
               /\ run' = IF run_queue(f) = <<>> THEN NoRun ELSE Run(answer, f, <<>>)
          ELSE /\ out' = [page |-> "consent", status |-> "info"]
               /\ run' = Run(answer, Flags(FALSE, {}), <<>>)
               /\ UNCHANGED queue
    /\ UNCHANGED <<disk, day_name_locale, state>>

\* run_analysis reaches the analysis a and calls it; the call
\* displays page.  Every page blocks (plt.show(), a modal messagebox) until
\* the user closes it, so the next analysis starts only when nothing is
\* displayed.  An exception leaves run_analysis: what it had yet to reach is
\* not run.
reach(a, page) ==
    /\ out = NoOut
    /\ queue # <<>> /\ Head(queue) = a
    /\ out' = page
    /\ queue' = IF page.status = "fault" THEN <<>> ELSE Tail(queue)
    /\ run' = IF page = NoOut /\ Tail(queue) = <<>> THEN NoRun
              ELSE [run EXCEPT !.done = Append(@, a)]
    /\ UNCHANGED <<disk, day_name_locale>>

run_monthly ==
    /\ reach("monthly", plot_monthly_activity(state.activity_counts))
    /\ UNCHANGED state

run_cumulative ==
    /\ reach("cumulative", plot_cumulative_activity(state.df_all))
    /\ UNCHANGED state

run_peaks ==
    /\ queue # <<>> /\ Head(queue) = "peaks"
    /\ \E page \in show_activity_peaks_page(state.reactions, state.comments) :
          reach("peaks", page)
    /\ UNCHANGED state

run_intervals ==
    /\ reach("intervals", show_intervals_page(state.df_all))
    /\ UNCHANGED state

run_extremes ==
    /\ reach("extremes", show_extreme_periods_page(state.df_all))
    /\ UNCHANGED state

run_timeofday ==
    /\ reach("timeofday", show_time_of_day_page(state.df_all))
    /\ UNCHANGED state

run_heatmap ==
    /\ reach("heatmap", show_heatmap_page(state.df_all))
    /\ UNCHANGED state

run_seasonality ==
    /\ reach("seasonality", show_seasonality_page(state.df_all))
    /\ UNCHANGED state

run_jobsaved ==
    /\ reach("jobsaved", show_saved_jobs_analysis(state.saved_jobs))
    /\ UNCHANGED state

\* pd.Timestamp.today() is whatever the clock says.
run_journey ==
    /\ queue # <<>> /\ Head(queue) = "journey"
    /\ \E today \in Todays :
          reach("journey", show_professional_journey_page(state.positions, today))
    /\ UNCHANGED state

\* compute_sector_percentages writes the cleaned column into the frame it
\* is given, state["connections"].
run_sector ==
    /\ reach("sector", show_sector_pages(state.connections))
    /\ state' = [state EXCEPT !.connections = clean_Sector(state.connections)]

run_network ==
    /\ reach("network", show_network_growth_page(state.connections))
    /\ UNCHANGED state

\* refresh_data: the data directory is read again, as it is now, and
\* state.update() replaces every entry of the state.
refresh_data(disks) ==
    /\ \E d \in disks :
          /\ disk' = d
          /\ state' = state_update(state, detect_and_load_data(d, day_name_locale))
    /\ UNCHANGED <<day_name_locale, out, queue, run>>

\* The user closes what is displayed; on_launch_analysis returns when
\* nothing is left to run.
close_page ==
    /\ out # NoOut
    /\ out' = NoOut
    /\ run' = IF queue = <<>> THEN NoRun ELSE run
    /\ UNCHANGED <<disk, day_name_locale, state, queue>>

\* The main specification: one box ticked at a time, among the analyses of
\* the interactions.
launch_one ==
    on_launch_analysis({Flags(FALSE, {a}) :
        a \in {"monthly", "cumulative", "peaks", "intervals", "extremes", "timeofday",
                "heatmap", "seasonality"}})

Next ==
    \/ launch_one
    \/ run_monthly
    \/ run_cumulative
    \/ run_peaks
    \/ run_intervals
    \/ run_extremes
    \/ run_timeofday
    \/ run_heatmap
    \/ run_seasonality
    \/ close_page

Spec == Init /\ [][Next]_vars


\* ------------------------------------------ specifications of one analysis
\* Streams of up to MaxHourRows reactions on one day, at every hour.
MaxHourRows == 2
HourDisks ==
    {Dir(f, File("absent", <<>>)) :
        f \in UNION {DatedFiles({Cell(2024, 1, 1, h) : h \in 0..23}, n) : n \in 1..MaxHourRows}}

InitHours == InitOn(HourDisks)
launch_timeofday == on_launch_analysis({Flags(FALSE, {"timeofday"})})
NextHours == launch_timeofday \/ run_timeofday \/ close_page
SpecHours == InitHours /\ [][NextHours]_vars

\* Streams with one reaction in each calendar month, the years spread over
\* SpanYears years in a pattern (k, s), one month possibly left out, and
\* possibly one more event, a comment, in a later year.
SpanYears == 3
FirstYear == 2020
SeasonFile(k, s, omit) ==
    File("dated",
         SelectSeq([m \in 1..12 |-> Cell(FirstYear + ((m * k + s) % SpanYears), m, 15, 10)],
                   LAMBDA c : c.mo # omit))
ExtraFile(extra) ==
    IF extra = 0 THEN File("dated", <<>>)
    ELSE File("dated", <<Cell(FirstYear + SpanYears, extra, 20, 9)>>)
SeasonDisks ==
    {Dir(SeasonFile(k, s, omit), ExtraFile(extra)) :
        k \in 0..(SpanYears - 1), s \in 0..(SpanYears - 1), omit \in 0..12, extra \in 0..12}

InitSeason == InitOn(SeasonDisks)
launch_seasonality == on_launch_analysis({Flags(FALSE, {"seasonality"})})
NextSeason == launch_seasonality \/ run_seasonality \/ close_page
SpecSeason == InitSeason /\ [][NextSeason]_vars

\* Streams of up to MaxPeak reactions in one month and up to MaxSide
\* comments, in the same month or in the next.
MaxPeak == 41
MaxSide == 2
PeakDisks ==
    {Dir(File("dated", [i \in 1..n |-> Cell(2024, 1, 1, 4)]),
         File("dated", [i \in 1..m |-> c])) :
        n \in 0..MaxPeak, m \in 0..MaxSide, c \in {Cell(2024, 1, 8, 5), Cell(2024, 2, 29, 17)}}

InitPeak == InitOn(PeakDisks)
launch_peaks == on_launch_analysis({Flags(FALSE, {"peaks"}), Flags(FALSE, {"extremes"})})
NextPeak == launch_peaks \/ run_peaks \/ run_extremes \/ close_page
SpecPeak == InitPeak /\ [][NextPeak]_vars

\* Streams of one reaction or none in January, one or none in April, and up
\* to MaxVariation comments at one instant in February: the monthly totals
\* the regularity comment receives vary by whole and by half numbers.
MaxVariation == 31
RegularDisks ==
    {Dir(File("dated", [i \in 1..a |-> Cell(2024, 1, 1, 4)] \o [i \in 1..b |-> Cell(2024, 4, 2, 9)]),
         File("dated", [i \in 1..m |-> Cell(2024, 2, 29, 17)])) :
        a \in 0..1, b \in 0..1, m \in 0..MaxVariation}

InitRegular == InitOn(RegularDisks)
launch_cumulative == on_launch_analysis({Flags(FALSE, {"cumulative"})})
NextRegular == launch_cumulative \/ run_cumulative \/ close_page
SpecRegular == InitRegular /\ [][NextRegular]_vars

\* Streams of up to MaxTimelineRows reactions, in any order, and one comment
\* or none, at instants a week apart in January and one in March.
MaxTimelineRows == 3
TimelineDates ==
    {Cell(2024, 1, 8, 12), Cell(2024, 1, 15, 12), Cell(2024, 1, 22, 12), Cell(2024, 3, 4, 12)}
TimelineDisks ==
    {Dir(f, g) :
        f \in UNION {DatedFiles(TimelineDates, n) : n \in 0..MaxTimelineRows},
        g \in DatedFiles(TimelineDates, 1) \cup {File("absent", <<>>)}}

InitTimeline == InitOn(TimelineDisks)
launch_timeline ==
    on_launch_analysis({Flags(FALSE, {"cumulative"}), Flags(FALSE, {"extremes"})})
NextTimeline == launch_timeline \/ run_cumulative \/ run_extremes \/ close_page
SpecTimeline == InitTimeline /\ [][NextTimeline]_vars

\* The streams of SpecPeak under the three views that comment the total of
\* the peak month.
InitNarrative == InitOn(PeakDisks)
launch_narrative ==
    on_launch_analysis({Flags(FALSE, {"monthly"}), Flags(FALSE, {"peaks"}),
                        Flags(FALSE, {"extremes"})})
NextNarrative == launch_narrative \/ run_monthly \/ run_peaks \/ run_extremes \/ close_page
SpecNarrative == InitNarrative /\ [][NextNarrative]_vars

\* ------------------------------------------- specification of the whole run
\* Files of up to MaxTableRows rows.  A position starts in 2020, in 2022 or
\* at no date and ends in 2021, in 2020 or at no date; a connection is made
\* in January, in March or at no date, its sector "T", " T " or missing; a
\* job is saved in January, in March or at no date, at company A or B.
MaxTableRows == 2
SeqsUpTo(S, n) == UNION {[1..k -> S] : k \in 0..n}

PositionColumns ==
    {Col("Started On"), Col("Finished On"), Col("Title"), Col("Company Name")}
PositionRows ==
    {[StartedOn |-> s, FinishedOn |-> f, Title |-> "Dev", Company |-> "Acme"] :
        s \in {Cell(2020, 1, 1, 0), Cell(2022, 1, 1, 0), MissingCell},
        f \in {Cell(2021, 1, 1, 0), Cell(2020, 1, 1, 0), MissingCell}}
BackwardsPosition ==
    [StartedOn |-> Cell(2022, 1, 1, 0), FinishedOn |-> Cell(2021, 1, 1, 0),
     Title |-> "Dev", Company |-> "Acme"]
PositionsFiles ==
    {Table(PositionColumns, rows) : rows \in SeqsUpTo(PositionRows, MaxTableRows)}
    \cup {Table(PositionColumns \ {c}, <<BackwardsPosition>>) : c \in PositionColumns}
    \cup {Table((PositionColumns \ {Col("Title")}) \cup {[name |-> "Title", padded |-> TRUE]},
                 <<BackwardsPosition>>)}

ConnectionColumns == {Col("Connected On"), Col("Sector")}
ConnectionRows ==
    {[ConnectedOn |-> c, Sector |-> s] :
        c \in {Cell(2024, 1, 8, 0), Cell(2024, 3, 4, 0), MissingCell},
        s \in {Text(<<"T">>), Text(<<" ", "T", " ">>), NullText}}
PaddedConnection == [ConnectedOn |-> Cell(2024, 1, 8, 0), Sector |-> Text(<<" ", "T", " ">>)]
ConnectionsFiles ==
    {Table(ConnectionColumns, rows) : rows \in SeqsUpTo(ConnectionRows, MaxTableRows)}
    \cup {Table(ConnectionColumns \ {c}, <<PaddedConnection>>) : c \in ConnectionColumns}

SavedJobColumns == {Col("Saved Date"), Col("Company Name"), Col("Job Title")}
SavedJobRows ==
    {[SavedDate |-> d, Company |-> c, JobTitle |-> "Analyst"] :
        d \in {Cell(2024, 1, 8, 0), Cell(2024, 3, 4, 0), MissingCell},
        c \in {"A", "B"}}
SavedJobsFiles ==
    {Table(SavedJobColumns, rows) : rows \in SeqsUpTo(SavedJobRows, MaxTableRows)}
    \cup {Table(SavedJobColumns \ {c}, <<CHOOSE r \in SavedJobRows :
                                              r.SavedDate = Cell(2024, 1, 8, 0) /\ r.Company = "A">>) :
              c \in SavedJobColumns}

\* The interaction files of the whole run: none, one reaction, or a reaction
\* and a comment in another month.
AppInteractions ==
    {<<Absent, Absent>>,
     <<File("dated", <<Cell(2024, 1, 29, 4)>>), Absent>>,
     <<File("dated", <<Cell(2024, 1, 29, 4)>>), File("dated", <<Cell(2024, 3, 4, 12)>>)>>}

AppDir(interactions, positions, connections, saved_jobs) ==
    [Reactions |-> interactions[1], Comments |-> interactions[2],
     Positions |-> positions, Connections |-> connections, SavedJobs |-> saved_jobs]

\* One file varied at a time, beside a reaction and a comment.
AppDisks ==
    LET both == <<File("dated", <<Cell(2024, 1, 29, 4)>>), File("dated", <<Cell(2024, 3, 4, 12)>>)>>
    IN  {AppDir(i, Absent, Absent, Absent) : i \in AppInteractions}
        \cup {AppDir(both, p, Absent, Absent) : p \in PositionsFiles}
        \cup {AppDir(both, Absent, c, Absent) : c \in ConnectionsFiles}
        \cup {AppDir(both, Absent, Absent, s) : s \in SavedJobsFiles}

\* The boxes ticked: none, each analysis alone, the analyses of the files
\* with named columns together, all the analyses by their boxes, "Tout
\* analyser" alone and with one box.
AppChoices ==
    {Flags(FALSE, {a}) : a \in Analyses}
    \cup {Flags(FALSE, {}),
          Flags(FALSE, {"jobsaved", "journey", "sector", "network"}),
          Flags(FALSE, Analyses), Flags(TRUE, {}), Flags(TRUE, {"peaks"})}

InitApp == InitOn(AppDisks)
launch_any == on_launch_analysis(AppChoices)
NextApp ==
    \/ launch_any
    \/ run_monthly
    \/ run_cumulative
    \/ run_peaks
    \/ run_intervals
    \/ run_extremes
    \/ run_timeofday
    \/ run_heatmap
    \/ run_seasonality
    \/ run_jobsaved
    \/ run_journey
    \/ run_sector
    \/ run_network
    \/ close_page
SpecApp == InitApp /\ [][NextApp]_vars

\* ------------------------------------------ specification of the refreshes
\* Data directories that differ in every file: the interactions of the whole
\* run, one position or two, one connection of sector " T " or two, one saved
\* job or two.  The directory changes between two loads.
RefreshDisks ==
    {AppDir(i, Table(PositionColumns, SubSeq(<<BackwardsPosition, BackwardsPosition>>, 1, p)),
               Table(ConnectionColumns, SubSeq(<<PaddedConnection, PaddedConnection>>, 1, c)),
               Table(SavedJobColumns,
                     SubSeq([k \in 1..2 |-> [SavedDate |-> Cell(2024, 1, 8, 0), Company |-> "A",
                                              JobTitle |-> "Analyst"]], 1, s))) :
        i \in AppInteractions, p \in 1..2, c \in 1..2, s \in 1..2}

InitRefresh == InitOn(RefreshDisks)
launch_refresh ==
    on_launch_analysis({Flags(FALSE, {"monthly"}), Flags(FALSE, {"sector", "network"})})
refresh ==
    refresh_data(RefreshDisks)
NextRefresh ==
    \/ launch_refresh
    \/ refresh
    \/ run_monthly
    \/ run_sector
    \/ run_network
    \/ close_page
SpecRefresh == InitRefresh /\ [][NextRefresh]_vars

\* ================================================================ claims
\* What the export holds, read off the files themselves.
Parses(raw) == to_datetime(raw) # NaT
RawRows(file) == IF file.kind = "dated" THEN file.rows ELSE <<>>
ParsedDates(file) ==
    LET rows  == RawRows(file)
        dates == [i \in 1..Len(rows) |-> to_datetime(rows[i])]
    IN  SelectSeq(dates, LAMBDA t : t # NaT)
DatesOf(df) == [i \in 1..Len(df.rows) |-> df.rows[i].Date]
Events == DatesOf(state.reactions) \o DatesOf(state.comments)

\* The sum of a kind's counts over all month buckets.
BucketSum(ac, kind) ==
    IF ac.none \/ kind \notin ac.cols THEN 0
    ELSE SumSeq([k \in 1..Len(ac.rows) |-> ac.rows[k].counts[kind]])

\* C1: for each kind, the counts of that kind summed over all month buckets
\* of activity_counts equal the number of records of that kind the
\* normalizer retained, which is the number of records of that kind's file
\* whose Date parses: aggregation creates, loses and moves no event.
C1_AggregationPreservesCounts ==
    /\ BucketSum(state.activity_counts, "Reactions") = Len(state.reactions.rows)
    /\ BucketSum(state.activity_counts, "Comments") = Len(state.comments.rows)
    /\ Len(state.reactions.rows) = Len(ParsedDates(disk.Reactions))
    /\ Len(state.comments.rows) = Len(ParsedDates(disk.Comments))

\* Both kinds present in different months, and a record dropped.
C1_Witness ==
    /\ ~state.activity_counts.none
    /\ Len(state.activity_counts.rows) >= 2
    /\ state.activity_counts.cols = {"Reactions", "Comments"}
    /\ Len(RawRows(disk.Reactions)) > Len(state.reactions.rows)

\* The buckets of the retained events at one granularity, and their totals.
BucketKeys(KeyOf) == {groupby_key(Events[i], KeyOf) : i \in 1..Len(Events)}
BucketTotal(KeyOf, key) ==
    Cardinality({i \in 1..Len(Events) : groupby_key(Events[i], KeyOf) = key})
IsEarliestPeak(KeyOf, chosen) ==
    /\ chosen \in BucketKeys(KeyOf)
    /\ \A k \in BucketKeys(KeyOf) :
          /\ BucketTotal(KeyOf, k) <= BucketTotal(KeyOf, chosen)
          /\ BucketTotal(KeyOf, k) = BucketTotal(KeyOf, chosen) => chosen <= k

\* C2: the day, week and month shown as peaks by show_activity_peaks_page,
\* the peak month of show_activity_peaks_comment and the best month of
\* plot_monthly_activity each hold a total >= the total of every other
\* bucket, and among buckets that tie for the maximum the earliest is shown.
C2_PeakIsEarliestMaximum ==
    /\ (out.page = "peaks" /\ out.status = "shown") =>
          /\ IsEarliestPeak("D", out.day.key)
          /\ out.day.total = BucketTotal("D", out.day.key)
          /\ IsEarliestPeak("W", out.week.key)
          /\ out.week.total = BucketTotal("W", out.week.key)
          /\ IsEarliestPeak("M", out.month.key)
          /\ out.month.total = BucketTotal("M", out.month.key)
          /\ out.comment.peak_month = month_to_timestamp(out.month.key)
          /\ out.comment.peak_value = out.month.total
    /\ (out.page = "monthly" /\ out.status = "shown") =>
          \E k \in BucketKeys("M") :
              /\ IsEarliestPeak("M", k)
              /\ out.best_month = month_to_timestamp(k)
              /\ out.best_value = BucketTotal("M", k)

\* Peaks shown while three days tie for the maximum and the first event of
\* the input lies on a later day than the one shown, the week shown holds
\* more than an earlier week and the month shown more than another month.
C2_Witness ==
    /\ out.page = "peaks" /\ out.status = "shown"
    /\ \E k \in BucketKeys("D") :
          k # out.day.key /\ BucketTotal("D", k) = out.day.total
    /\ dt_day(Events[1]) # out.day.key
    /\ \E k \in BucketKeys("W") :
          k < out.week.key /\ BucketTotal("W", k) < out.week.total
    /\ \E k \in BucketKeys("M") : BucketTotal("M", k) < out.month.total

\* C3: with exactly two events at t1 < t2, in either input order, the
\* interval analysis yields the single interval t2 - t1, which is the mean,
\* the median, the maximum and the minimum, and find_extreme_periods bounds
\* both extremes by (t1, t2).
C3_TwoEvents ==
    LET df == state.df_all
    IN  (~df.none /\ Len(df.rows) = 2 /\ df.rows[1].Date # df.rows[2].Date) =>
        LET t1 == Min({df.rows[1].Date, df.rows[2].Date})
            t2 == Max({df.rows[1].Date, df.rows[2].Date})
            d  == [num |-> t2 - t1, den |-> 1]
        IN  /\ out.page = "intervals" =>
                  /\ out.status = "shown"
                  /\ out.stats.intervals = <<t2 - t1>>
                  /\ out.stats.mean = d /\ out.stats.median = d
                  /\ out.stats.max = d /\ out.stats.min = d
            /\ out.page = "extremes" =>
                  /\ out.status = "shown"
                  /\ out.periods.max_interval = d /\ out.periods.min_interval = d
                  /\ out.periods.max_start = t1 /\ out.periods.max_end = t2
                  /\ out.periods.min_start = t1 /\ out.periods.min_end = t2

\* Two events given latest first, the extreme periods shown.
C3_Witness ==
    /\ ~state.df_all.none /\ Len(state.df_all.rows) = 2
    /\ state.df_all.rows[1].Date > state.df_all.rows[2].Date
    /\ out.page = "extremes" /\ out.status = "shown"

\* C4: a stream of 0 or 1 events gives the interval pages an empty statistic
\* set (no mean, median or extremes) and never a fault.
C4_ShortStreamIsNoFault ==
    (state.df_all.none \/ Len(state.df_all.rows) <= 1) =>
        /\ (out.page = "intervals" /\ out.status = "shown") =>
              /\ out.stats.intervals = <<>>
              /\ out.stats.mean = NaTd /\ out.stats.median = NaTd
              /\ out.stats.max = NaTd /\ out.stats.min = NaTd
        /\ out.page \in {"intervals", "extremes"} => out.status # "fault"

\* C8: the normalizer retains exactly the records whose Date parses, in
\* their order, and no retained event has a null timestamp.
C8_RetainsExactlyParsed ==
    /\ DatesOf(state.reactions) = ParsedDates(disk.Reactions)
    /\ DatesOf(state.comments) = ParsedDates(disk.Comments)
    /\ \A i \in 1..Len(Events) : Events[i] # NaT
    /\ ~state.df_all.none => \A i \in 1..Len(state.df_all.rows) : state.df_all.rows[i].Date # NaT

\* One malformed and one valid timestamp: exactly one event retained.
C8_Witness ==
    /\ disk.Reactions.kind = "dated" /\ Len(disk.Reactions.rows) = 2
    /\ \E i, j \in 1..2 :
          /\ ~Parses(disk.Reactions.rows[i]) /\ disk.Reactions.rows[i] # MissingCell
          /\ Parses(disk.Reactions.rows[j])
    /\ Len(state.reactions.rows) = 1

\* A file without a record whose Date parses.
NoUsableRecord(file) == \A i \in 1..Len(RawRows(file)) : ~Parses(RawRows(file)[i])

\* C10: when neither file holds a usable record (absent, empty, no Date
\* column, every timestamp unparseable) the event stream is empty, df_all
\* and activity_counts are absent, the monthly page and the peaks page show
\* a no-data notice, and no page faults.
C10_EmptyInputIsNoData ==
    (NoUsableRecord(disk.Reactions) /\ NoUsableRecord(disk.Comments)) =>
        /\ Len(state.reactions.rows) = 0 /\ Len(state.comments.rows) = 0
        /\ state.df_all.none /\ state.activity_counts.none
        /\ out.page = "monthly" => out.status = "warning"
        /\ out.page = "peaks" => out.status \in {"warning", "info"}
        /\ out.status # "fault"

\* Every timestamp of the reactions unparseable, comments without a Date
\* column, the peaks page asked for.
C10_Witness ==
    /\ disk.Reactions.kind = "dated" /\ Len(disk.Reactions.rows) >= 1
    /\ NoUsableRecord(disk.Reactions)
    /\ disk.Comments.kind = "nodate"
    /\ out.page = "peaks" /\ out.status = "info"

\* The weekday (1 = Monday) and the band (1 = Morning) of an instant.
WeekdayNumber(ts) == (((ts \div 24) + 3) % 7) + 1
BandNumber(ts) ==
    LET h == ts % 24
    IN  IF h \in 5..11 THEN 1 ELSE IF h \in 12..16 THEN 2 ELSE IF h \in 17..21 THEN 3 ELSE 4

\* C5: analyze_heatmap returns a dense grid of 4 bands by 7 weekdays in which
\* every cell is the integer count of the events of that weekday and band
\* (0 when there is none), whichever weekday-naming branch was taken.
C5_DenseIntegerGrid ==
    (out.page = "heatmap" /\ out.status \in {"shown", "fault"}) =>
        /\ out.pivot.index = {"Matin", "Apres-midi", "Soir", "Nuit"}
        /\ out.pivot.columns = Range(order_days)
        /\ \A j \in 1..4, k \in 1..7 :
              out.pivot.cell[<<order_moments[j], order_days[k]>>] =
                  Cardinality({i \in 1..Len(Events) :
                      BandNumber(Events[i]) = j /\ WeekdayNumber(Events[i]) = k})

\* The bands as the specification states them, and the hours of the export.
Bands == {"Matin", "Apres-midi", "Soir", "Nuit"}
BandHours(b) ==
    IF b = "Matin" THEN 5..11
    ELSE IF b = "Apres-midi" THEN 12..16
    ELSE IF b = "Soir" THEN 17..21
    ELSE (22..23) \cup (0..4)
BoundaryBand(h) ==
    IF h \in {4, 22} THEN "Nuit"
    ELSE IF h \in {5, 11} THEN "Matin"
    ELSE IF h \in {12, 16} THEN "Apres-midi"
    ELSE "Soir"
RawHours == [i \in 1..Len(RawRows(disk.Reactions)) |-> RawRows(disk.Reactions)[i].h]

\* C6: period_of_day puts every hour 0..23 in exactly one band, Morning
\* [5,12), Afternoon [12,17), Evening [17,22), Night [22,24) and [0,5); the
\* hours 4, 5, 11, 12, 16, 17, 21, 22 fall in Night, Morning, Morning,
\* Afternoon, Afternoon, Evening, Evening, Night.
C6_HalfOpenBands ==
    (out.page = "timeofday" /\ out.status = "shown") =>
        /\ DOMAIN out.counts \subseteq Bands
        /\ \A b \in Bands :
              (IF b \in DOMAIN out.counts THEN out.counts[b] ELSE 0) =
                  Cardinality({i \in 1..Len(RawHours) : RawHours[i] \in BandHours(b)})
        /\ \A i \in 1..Len(RawHours) :
              RawHours[i] \in {4, 5, 11, 12, 16, 17, 21, 22} =>
                  BoundaryBand(RawHours[i]) \in DOMAIN out.counts
        /\ \A h \in 0..23 : Cardinality({b \in Bands : period_of_day(h) = b}) = 1

\* Events at hours 11 and 12 counted in Morning and Afternoon.
C6_Witness ==
    /\ out.page = "timeofday" /\ out.status = "shown"
    /\ RawHours = <<12, 11>>
    /\ out.counts["Matin"] = 1 /\ out.counts["Apres-midi"] = 1

\* Every Date cell of the export.
AllRaw == RawRows(disk.Reactions) \o RawRows(disk.Comments)

\* C7: analyze_seasonality returns 12 bins, January to December; bin m holds
\* the number of events whose calendar month is m whatever their year, a
\* month without event holds 0, and one event in each calendar month, over
\* any years, gives twelve 1's.
C7_SeasonalityIgnoresYear ==
    (out.page = "seasonality" /\ out.status = "shown") =>
        /\ DOMAIN out.monthly_counts = 1..12
        /\ \A m \in 1..12 :
              out.monthly_counts[m] =
                  Cardinality({i \in 1..Len(AllRaw) : Parses(AllRaw[i]) /\ AllRaw[i].mo = m})

\* One event in each calendar month over three different years, and the
\* twelve bins all 1.
C7_Witness ==
    /\ out.page = "seasonality" /\ out.status = "shown"
    /\ Len(AllRaw) = 12
    /\ \A m \in 1..12 : \E i \in 1..12 : AllRaw[i].mo = m
    /\ Cardinality({AllRaw[i].y : i \in 1..12}) >= 3
    /\ out.monthly_counts = [m \in 1..12 |-> 1]

\* The largest month total of the retained events and the stated ladder.
PeakMonthTotal ==
    Max({BucketTotal("M", k) : k \in BucketKeys("M")})
Ladder(v) == IF v < 15 THEN "low" ELSE IF v < 40 THEN "medium" ELSE "high"
TierRank(t) == IF t = "low" THEN 1 ELSE IF t = "medium" THEN 2 ELSE 3

\* C9: under the ladder of show_activity_peaks_comment and of
\* show_extreme_periods_comment a peak-month total below 15 is low, one in
\* [15, 40) medium and one of 40 or more high (14, 15, 39, 40 are low,
\* medium, medium, high), and no smaller total gets a higher tier.
C9_PeakLadder ==
    /\ (out.page = "peaks" /\ out.status = "shown") =>
          /\ out.comment.pool = Ladder(PeakMonthTotal)
          /\ PeakMonthTotal \in {14} => out.comment.pool = "low"
          /\ PeakMonthTotal \in {15, 39} => out.comment.pool = "medium"
          /\ PeakMonthTotal \in {40} => out.comment.pool = "high"
          /\ \A v \in 0..PeakMonthTotal : TierRank(peak_pool(v)) <= TierRank(out.comment.pool)
    /\ (out.page = "extremes" /\ out.status = "shown") =>
          /\ out.comment.tier = Ladder(PeakMonthTotal)
          /\ \A v \in 0..PeakMonthTotal : TierRank(extreme_tier(v)) <= TierRank(out.comment.tier)

\* A peak month of 40, reactions and comments summed, commented as high.
C9_Witness ==
    /\ out.page = "peaks" /\ out.status = "shown"
    /\ PeakMonthTotal = 40
    /\ out.month.likes > 0 /\ out.month.comments > 0
    /\ out.comment.pool = "high"

\* The events of one kind, read off the frames of the state.
EventsOfKind(kind) ==
    IF kind = "Reactions" THEN DatesOf(state.reactions) ELSE DatesOf(state.comments)
CumulativeCell(frame, k, kind) ==
    IF kind \in frame.cols THEN frame.rows[k].counts[kind] ELSE 0

\* C19: the cumulative series of plot_cumulative_activity has one row per
\* distinct timestamp, in strictly increasing order; for each kind the value
\* at t is the number of events of that kind with timestamp <= t, events
\* sharing a timestamp all counted, so the series never decreases and its
\* last value is the number of events of the kind.
C19_CumulativeIsPrefixSum ==
    (out.page = "cumulative" /\ out.status = "shown") =>
        LET cum == out.cumulative
            n   == Len(cum.rows)
        IN  /\ {cum.rows[k].key : k \in 1..n} = Range(Events)
            /\ \A k \in 1..(n - 1) : cum.rows[k].key < cum.rows[k + 1].key
            /\ \A kind \in {"Reactions", "Comments"} :
                  LET ev == EventsOfKind(kind)
                  IN  /\ \A k \in 1..n :
                            CumulativeCell(cum, k, kind) =
                                Cardinality({i \in 1..Len(ev) : ev[i] <= cum.rows[k].key})
                      /\ \A k \in 1..(n - 1) :
                            CumulativeCell(cum, k, kind) <= CumulativeCell(cum, k + 1, kind)
                      /\ CumulativeCell(cum, n, kind) = Len(ev)

\* The cumulative page of a stream given latest first, with both kinds and
\* two events of one kind at the same instant.
C19_Witness ==
    /\ out.page = "cumulative" /\ out.status = "shown"
    /\ Len(out.cumulative.rows) = 2
    /\ out.cumulative.cols = {"Reactions", "Comments"}
    /\ Len(state.df_all.rows) = 3
    /\ state.df_all.rows[1].Date > state.df_all.rows[3].Date

\* The mean absolute variation of a Series of totals, as total and count.
TotalVariation(s) == SumSeq([k \in 1..(Len(s) - 1) |-> Abs(s[k + 1].value - s[k].value)])
RegularityLadder(total, count) ==
    IF total < 5 * count THEN "very regular"
    ELSE IF total < 15 * count THEN "regular"
    ELSE IF total < 30 * count THEN "irregular"
    ELSE "very irregular"
RegularityRank(tier) ==
    CASE tier = "very regular" -> 1 [] tier = "regular" -> 2
      [] tier = "irregular" -> 3 [] tier = "very irregular" -> 4

\* C14: show_cumulative_comment classifies the mean absolute month-over-month
\* variation v of the monthly totals it receives by the ladder v < 5 very
\* regular, 5 <= v < 15 regular, 15 <= v < 30 irregular, v >= 30 very
\* irregular: the values 5, 15 and 30 fall in the higher tier, and a larger
\* v never gives a lower tier.
C14_RegularityLadder ==
    (out.page = "cumulative" /\ out.status = "shown"
        /\ Len(out.comment.monthly_totals) >= 2) =>
        LET s     == out.comment.monthly_totals
            total == TotalVariation(s)
            count == Len(s) - 1
            v     == out.comment.mean_variation
        IN  /\ v # NaNf /\ v.num * count = total * v.den
            /\ out.comment.tier = RegularityLadder(total, count)
            /\ (v.num = 5 * v.den) => out.comment.tier = "regular"
            /\ (v.num = 15 * v.den) => out.comment.tier = "irregular"
            /\ (v.num = 30 * v.den) => out.comment.tier = "very irregular"
            /\ \A w \in 0..(2 * MaxVariation + 4) :
                  \* w / 2 against v
                  /\ (w * v.den <= 2 * v.num) =>
                        RegularityRank(regularity_tier(Fraction(w, 2)))
                            <= RegularityRank(out.comment.tier)
                  /\ (w * v.den >= 2 * v.num) =>
                        RegularityRank(regularity_tier(Fraction(w, 2)))
                            >= RegularityRank(out.comment.tier)

\* A variation of exactly 15 over two months, classified irregular.
C14_Witness ==
    /\ out.page = "cumulative" /\ out.status = "shown"
    /\ Len(out.comment.monthly_totals) = 2
    /\ out.comment.mean_variation = Fraction(15, 1)
    /\ out.comment.tier = "irregular"

\* The pairs of timestamps of two events that follow one another when the
\* events are put in ascending order.
ConsecutivePairs ==
    {p \in Range(Events) \X Range(Events) :
        \/ /\ p[1] < p[2]
           /\ ~\E i \in 1..Len(Events) : p[1] < Events[i] /\ Events[i] < p[2]
        \/ /\ p[1] = p[2]
           /\ Cardinality({i \in 1..Len(Events) : Events[i] = p[1]}) >= 2}

\* C18: for a stream of at least two events find_extreme_periods bounds the
\* maximum and the minimum interval each by the timestamps of two events
\* consecutive in ascending order; end - start is the interval reported, the
\* maximum (minimum) is >= (<=) every gap between consecutive events, and of
\* several gaps that tie the chronologically earliest is reported.
C18_ExtremesAreConsecutiveGaps ==
    (out.page = "extremes" /\ Len(Events) >= 2) =>
        /\ out.status = "shown"
        /\ LET r == out.periods
           IN  /\ r.max_interval.den = 1 /\ r.min_interval.den = 1
               /\ <<r.max_start, r.max_end>> \in ConsecutivePairs
               /\ <<r.min_start, r.min_end>> \in ConsecutivePairs
               /\ r.max_end - r.max_start = r.max_interval.num
               /\ r.min_end - r.min_start = r.min_interval.num
               /\ \A p \in ConsecutivePairs :
                     /\ p[2] - p[1] <= r.max_interval.num
                     /\ p[2] - p[1] >= r.min_interval.num
                     /\ (p[2] - p[1] = r.max_interval.num) => r.max_start <= p[1]
                     /\ (p[2] - p[1] = r.min_interval.num) => r.min_start <= p[1]

\* The extreme periods of three events a week apart, given latest first:
\* two gaps tie for the maximum and for the minimum.
C18_Witness ==
    /\ out.page = "extremes" /\ out.status = "shown"
    /\ Len(Events) = 3 /\ Events[1] > Events[2] /\ Events[2] > Events[3]
    /\ Cardinality(ConsecutivePairs) = 2
    /\ \A p \in ConsecutivePairs : p[2] - p[1] = out.periods.max_interval.num

\* The templates of each tier, as listed in show_activity_peaks_comment.
TierPool(tier) ==
    CASE tier = "high" -> {"high-1", "high-2", "high-3"}
      [] tier = "medium" -> {"medium-1", "medium-2", "medium-3"}
      [] tier = "low" -> {"low-1", "low-2", "low-3"}

\* C20: whatever random.choice draws, the message show_activity_peaks_comment
\* shows is a template of the pool of the tier of the peak value and of no
\* other tier's pool, and none of the three pools is empty.
C20_MessageWithinTierPool ==
    /\ \A tier \in {"high", "medium", "low"} : pool_messages(tier) # {}
    /\ (out.page = "peaks" /\ out.status = "shown" /\ out.comment.status = "shown") =>
          /\ out.comment.message \in TierPool(Ladder(out.comment.peak_value))
          /\ \A tier \in {"high", "medium", "low"} \ {Ladder(out.comment.peak_value)} :
                out.comment.message \notin TierPool(tier)

\* A peak of 15 commented with the last template of the medium pool.
C20_Witness ==
    /\ out.page = "peaks" /\ out.status = "shown"
    /\ out.comment.peak_value = 15
    /\ out.comment.message = "medium-3"

\* C11: in one run of run_analysis no analysis ends in a fault, and each
\* analysis reached, whatever it displays (a page, a warning, an error for a
\* missing column), leaves the analyses selected after it to be run.
C11_FaultNeverAbortsRun ==
    [][(queue # <<>> /\ queue' # queue) =>
           (out'.status # "fault" /\ queue' = Tail(queue))]_vars

\* A loaded source that is not empty and lacks one of its required columns.
LacksRequired(df, required) ==
    /\ ~df.none /\ ~df_empty(df)
    /\ \E c \in required : Col(c) \notin df.cols

\* C12: when the positions lack 'Started On', 'Finished On', 'Title' or
\* 'Company Name', the connections lack 'Connected On' or the saved jobs
\* lack 'Saved Date', 'Company Name' or 'Job Title', the source being loaded
\* and not empty, what the analysis of that source displays is the error of
\* a missing column, naming a column that is absent, and nothing else.
C12_MissingColumnIsReported ==
    /\ (out.page = "journey"
          /\ LacksRequired(state.positions,
                           {"Started On", "Finished On", "Title", "Company Name"})) =>
          /\ out.status = "error"
          /\ Col(out.missing) \notin state.positions.cols
    /\ (out.page = "network" /\ LacksRequired(state.connections, {"Connected On"})) =>
          out.status = "error"
    /\ (out.page = "jobsaved"
          /\ LacksRequired(state.saved_jobs, {"Saved Date", "Company Name", "Job Title"})) =>
          /\ out.status = "error"
          /\ Col(out.missing) \notin state.saved_jobs.cols

\* A series of month buckets has a bucket only for the months of the given
\* timestamps, each with a total of at least 1.
OnlyActiveMonths(series, dates) ==
    \A k \in 1..Len(series) :
        /\ series[k].value >= 1
        /\ \E i \in 1..Len(dates) : to_period_M(dates[i]) = to_period_M(series[k].key)

\* The timestamps of the rows of a table that have one in the column.
ColumnDates(df, col) ==
    IF df.none THEN <<>>
    ELSE SelectSeq([i \in 1..Len(df.rows) |->
                       IF col = "SavedDate" THEN to_datetime(df.rows[i].SavedDate)
                       ELSE df.rows[i].ConnectedOn],
                   LAMBDA d : d # NaT)

\* C13: activity_counts, the monthly series of the saved jobs and of the
\* connections, and the series of months plot_cumulative_activity hands to
\* its comment each have a bucket only for a month in which an event falls:
\* every bucket totals at least 1, and a month without event has none.
C13_BucketsOnlyForActiveMonths ==
    /\ ~state.activity_counts.none =>
          OnlyActiveMonths(sum_axis1(state.activity_counts), Events)
    /\ (out.page = "jobsaved" /\ out.status = "shown") =>
          OnlyActiveMonths(out.monthly_counts, ColumnDates(state.saved_jobs, "SavedDate"))
    /\ (out.page = "network" /\ out.status = "shown") =>
          OnlyActiveMonths(out.monthly_counts, ColumnDates(state.connections, "ConnectedOn"))
    /\ (out.page = "cumulative" /\ out.status = "shown") =>
          OnlyActiveMonths(out.comment.monthly_totals, Events)

\* The same without the series of plot_cumulative_activity.
C13_OtherSeries ==
    /\ ~state.activity_counts.none =>
          OnlyActiveMonths(sum_axis1(state.activity_counts), Events)
    /\ (out.page = "jobsaved" /\ out.status = "shown") =>
          OnlyActiveMonths(out.monthly_counts, ColumnDates(state.saved_jobs, "SavedDate"))
    /\ (out.page = "network" /\ out.status = "shown") =>
          OnlyActiveMonths(out.monthly_counts, ColumnDates(state.connections, "ConnectedOn"))

\* C15: whatever analyses have run, each of reactions, comments, df_all,
\* activity_counts, connections, positions and saved_jobs of the state is
\* what detect_and_load_data made of the data directory at the last load.
C15_AnalysesLeaveStateAlone ==
    \A k \in {"reactions", "comments", "df_all", "activity_counts",
               "connections", "positions", "saved_jobs"} :
        state[k] = detect_and_load_data(disk, day_name_locale)[k]

\* The same of every entry but the connections.
C15_OtherEntries ==
    \A k \in DOMAIN state \ {"connections"} :
        state[k] = detect_and_load_data(disk, day_name_locale)[k]

\* C16: after any refreshes and analyses the state has the entries of one
\* call of detect_and_load_data, the latest, and each entry is what that
\* call made of the data directory as it then was (the Sector column of the
\* connections possibly cleaned since by the sector analysis): no entry is
\* left from an earlier load.
C16_RefreshReplacesWholeState ==
    LET latest == detect_and_load_data(disk, day_name_locale)
    IN  /\ DOMAIN state = DOMAIN latest
        /\ \A k \in DOMAIN state \ {"connections"} : state[k] = latest[k]
        /\ state.connections \in {latest.connections, clean_Sector(latest.connections)}

\* The growth of a network of one connection, drawn from one load, still
\* displayed while the state holds another load: two connections, two
\* months of activity, two positions and two saved jobs.
C16_Witness ==
    /\ out.page = "network" /\ out.status = "shown" /\ out.total = 1
    /\ Len(state.connections.rows) = 2
    /\ ~state.activity_counts.none /\ Len(state.activity_counts.rows) = 2
    /\ Len(state.positions.rows) = 2
    /\ Len(state.saved_jobs.rows) = 2

\* The positions of the page that end after they start.
ForwardPositions == SelectSeq(out.rows, LAMBDA r : r.days > 0)

\* C17: a position whose end is not after its start has no bar on the
\* timeline of show_professional_journey_page and no part in its indicators:
\* the count, the average, the longest and the shortest duration are those
\* of the positions that end after they start.
C17_BackwardsPositionsSkipped ==
    (out.page = "journey" /\ out.status = "shown") =>
        /\ Len(out.bars) = Len(ForwardPositions)
        /\ \A b \in 1..Len(out.bars) : out.bars[b].width > 0
        /\ out.count = Len(ForwardPositions)
        /\ ForwardPositions # <<>> =>
              /\ out.avg_duration =
                    Fraction(SumSeq([i \in 1..Len(ForwardPositions) |->
                                       ForwardPositions[i].days]) * 100,
                             3044 * Len(ForwardPositions))
              /\ \A i \in 1..Len(ForwardPositions) :
                    /\ duration_months(ForwardPositions[i].days).num * out.max_duration.den
                          <= out.max_duration.num * duration_months(ForwardPositions[i].days).den
                    /\ duration_months(ForwardPositions[i].days).num * out.min_duration.den
                          >= out.min_duration.num * duration_months(ForwardPositions[i].days).den
              /\ out.min_duration.num > 0

\* The timeline alone: a bar for each position that ends after it starts
\* and for no other.
C17_BarsOnlyForward ==
    (out.page = "journey" /\ out.status = "shown") =>
        /\ Len(out.bars) = Len(ForwardPositions)
        /\ \A b \in 1..Len(out.bars) : out.bars[b].width > 0

\* Analyses are waiting or have been called only in a call of
\* on_launch_analysis whose consent window was answered "J'accepte"; after
\* any other answer nothing waits, nothing was called, the notice is shown.
ConsentGatesAnalyses ==
    /\ (queue # <<>> \/ out.page \in Analyses \/ run.done # <<>>) => run.answer = "accept"
    /\ run.answer \in {"refuse", "close"} =>
          (queue = <<>> /\ run.done = <<>> /\ out.page = "consent")

\* A run of analyses starts only in the step that answers a consent window
\* opened by that launch, and a step that answers it otherwise starts none
\* and leaves the state as it is.
ConsentAskedAtLaunch ==
    /\ (queue = <<>> /\ queue' # <<>>) => (run.answer = "none" /\ run'.answer = "accept")
    /\ (run.answer = "none" /\ run'.answer \in {"refuse", "close"}) =>
          (queue' = <<>> /\ state' = state)

\* C21: no analysis is executed unless the consent window opened by the same
\* launch returned accepted: every launch asks again, and refusing, or
\* closing the window without choosing, runs no analysis and leaves the
\* loaded state unchanged.
C21_NoAnalysisWithoutConsent ==
    []ConsentGatesAnalyses /\ [][ConsentAskedAtLaunch]_vars

\* The consent window closed without a choice, on loaded interactions: the
\* notice is displayed and nothing runs.
C21_Witness ==
    /\ run.answer = "close" /\ out.page = "consent" /\ queue = <<>>
    /\ ~state.df_all.none /\ Len(state.df_all.rows) = 2

\* The fixed order of the analyses and the place of each in it.
FixedOrder ==
    <<"monthly", "cumulative", "peaks", "intervals", "extremes", "timeofday",
      "heatmap", "seasonality", "jobsaved", "journey", "sector", "network">>
Place(a) == CHOOSE i \in 1..Len(FixedOrder) : FixedOrder[i] = a

\* The analyses selected by the check boxes.
Selected(f) == {a \in Range(FixedOrder) : f.all \/ a \in f.boxes}

\* The analyses called so far by the run under way are selected ones, each
\* called once, in the fixed order.
CalledInOrder ==
    /\ \A i \in 1..Len(run.done) : run.done[i] \in Selected(run.flags)
    /\ \A i, j \in 1..Len(run.done) : i < j => Place(run.done[i]) < Place(run.done[j])

\* C25: run_analysis calls an analysis if and only if "Tout analyser" or
\* the analysis's own box is ticked, each selected analysis once, in the
\* order monthly, cumulative, peaks, intervals, extreme periods, time of
\* day, heatmap, seasonality, saved jobs, journey, sectors, network growth:
\* when nothing is left to run, the analyses called are all those selected,
\* all twelve with "Tout analyser" whatever the other boxes.
C25_SelectedRunOnceInOrder ==
    run.answer = "accept" =>
        /\ CalledInOrder
        /\ queue = <<>> =>
              /\ Range(run.done) = Selected(run.flags)
              /\ run.flags.all => Len(run.done) = 12

\* The same of the runs in which no analysis has raised an exception.
C25_RunsWithoutFault ==
    (run.answer = "accept" /\ out.status # "fault") =>
        /\ CalledInOrder
        /\ queue = <<>> =>
              /\ Range(run.done) = Selected(run.flags)
              /\ run.flags.all => Len(run.done) = 12

\* A run of "Tout analyser" with one other box ticked that has called all
\* twelve analyses.
C25_CompleteRun ==
    /\ run.answer = "accept" /\ queue = <<>>
    /\ run.flags.all /\ run.flags.boxes = {"peaks"}
    /\ Len(run.done) = 12

\* The number of retained events in the month of a timestamp.
EventsInMonthOf(ts) ==
    Cardinality({i \in 1..Len(Events) : to_period_M(Events[i]) = to_period_M(ts)})

\* C22: the monthly totals plot_cumulative_activity hands to
\* show_cumulative_comment are, month by month, the numbers of events of the
\* month, so that the most and the least active month, their counts and
\* the mean variation of the comment are those of the monthly event counts.
C22_CommentOnMonthlyEventCounts ==
    (out.page = "cumulative" /\ out.status = "shown") =>
        LET totals == out.comment.monthly_totals
        IN  /\ \A k \in 1..Len(totals) : totals[k].value = EventsInMonthOf(totals[k].key)
            /\ out.comment.best_value = EventsInMonthOf(out.comment.best_month)
            /\ out.comment.worst_value = EventsInMonthOf(out.comment.worst_month)
            /\ \A k \in 1..Len(totals) :
                  /\ EventsInMonthOf(totals[k].key) <= out.comment.best_value
                  /\ EventsInMonthOf(totals[k].key) >= out.comment.worst_value

\* C24: when the series given to show_cumulative_comment has one month, so
\* that the mean variation is undefined, the tier of the comment is not
\* "very irregular".
C24_SingleMonthNotVeryIrregular ==
    (out.page = "cumulative" /\ out.status = "shown"
        /\ Len(out.comment.monthly_totals) = 1) =>
        out.comment.tier # "very irregular"

\* C23: plot_monthly_activity, show_activity_peaks_comment and
\* show_extreme_periods_comment give a peak-month total that is not 0 the
\* same tier: low below 15, medium from 15 to 39, high from 40.
C23_NarrativesAgree ==
    /\ (out.page = "monthly" /\ out.status = "shown" /\ out.best_value # 0) =>
          /\ out.best_value = PeakMonthTotal
          /\ out.comment = Ladder(PeakMonthTotal)
    /\ (out.page = "peaks" /\ out.status = "shown" /\ out.comment.status = "shown") =>
          /\ out.comment.peak_value = PeakMonthTotal
          /\ out.comment.pool = Ladder(PeakMonthTotal)
    /\ (out.page = "extremes" /\ out.status = "shown" /\ out.comment.status = "shown") =>
          /\ out.comment.peak_value = PeakMonthTotal
          /\ out.comment.tier = Ladder(PeakMonthTotal)

\* The same of the two comments of the peaks and of the extreme periods.
C23_PeaksAndExtremesAgree ==
    /\ (out.page = "peaks" /\ out.status = "shown" /\ out.comment.status = "shown") =>
          /\ out.comment.peak_value = PeakMonthTotal
          /\ out.comment.pool = Ladder(PeakMonthTotal)
    /\ (out.page = "extremes" /\ out.status = "shown" /\ out.comment.status = "shown") =>
          /\ out.comment.peak_value = PeakMonthTotal
          /\ out.comment.tier = Ladder(PeakMonthTotal)

====
